---- MODULE Spec2Model ----
(***************************************************************************)
(* Model of the rs621 request engine:                                      *)
(*   - RateLimit (src/client/rate_limit.rs): the shared deadline slot, the *)
(*     FIFO tokio mutex around it, Guard::drop, RateLimit::lock and        *)
(*     RateLimit::check, run by NumTasks concurrent callers;               *)
(*   - PostStream / PoolStream (src/post.rs, src/pool.rs): poll_next.      *)
(*                                                                         *)
(* Time is kept relative to the current instant: every stored Instant is   *)
(* the offset (in ms) from "now", so Instant::now() is 0, a deadline in    *)
(* the future is positive and Tick shifts every stored offset down.        *)
(* Offsets saturate at -REQ_COOLDOWN_DURATION; a `now` that is older than  *)
(* the stored deadline saturates one tick lower, so that the outcome of    *)
(* `now >= deadline` is the one the code computes however old both are.    *)
(***************************************************************************)
EXTENDS Integers, Sequences, FiniteSets, TLC

\* ---------------------------------------------------------------- bounds
NumTasks == 2
TickMs == 300
MaxPages == 2
MaxPageLen == 2
MaxId == 2
MaxEndPolls == 2
MaxTagId == 3
MaxTagPageLen == 2
MaxTagPages == 2
MaxBuildCalls == 2
MaxStartPage == 2
MaxBatches == 2
MaxPostId == 2
MaxClRequests == 4
MaxCursorArg == 2
MaxCursorId == 120
MaxIdBatches == 2

\* ------------------------------------------------------ program constants
REQ_COOLDOWN_DURATION == 600
LIST_HARD_LIMIT == 320

VARIABLES
    \* RateLimit
    deadline,   \* Arc<Mutex<Option<Instant>>> contents: <<>> is None, <<d>> is Some(now + d)
    owner,      \* task holding the MutexGuard, 0 when the mutex is free
    waitq,      \* FIFO queue of tasks suspended in self.deadline.lock().await
    pc,         \* position of each caller inside RateLimit::check
    snap,       \* `now` local of RateLimit::lock, per task (offset from the current instant)
    wakeAt,     \* argument of sleep_until, per task (offset from the current instant)
    ret,        \* what the most recently ended RateLimit::check call returned
    futOut,     \* what the wrapped future of that call produced
    arrivals,   \* tasks with a check call in progress, in the order they invoked check
    lastStart,  \* <<>> or <<offset of the most recent start of a wrapped request>>
    lastGap,    \* <<>> or <<time between the two most recent starts, saturated>>
    lastEnd,    \* <<>> or <<offset of the most recent end of a wrapped request>>
    slept,      \* slept[t]: the current lock() of task t has slept at least once
    runs,       \* runs[t]: times the wrapped future of t's current call was started
    \* PostStream / PoolStream
    kind,       \* "post" or "pool"
    stream,     \* the stream struct
    served,     \* responses the server gave, in order
    requests,   \* requests issued by the stream, in order
    yielded,    \* items handed to the consumer, in order
    lastRet,    \* return value of the latest poll_next: "Pending", "Item" or "End"
    endPolls,   \* number of polls that returned end-of-stream (counted up to MaxEndPolls)
    woken,      \* the consumer task is scheduled: it pulls again, or its waker was called
    \* tag::Query and Client::tag_search
    tagPhase,   \* "build" while the caller chains Query setters, "stream" after tag_search(query)
    tagBuilt,   \* number of setter calls made on the Query
    tagAsked,   \* the latest page and order arguments the caller passed, and which came last
    tagState,   \* the Option<Query> threaded through unfold: <<>> is None, <<q>> is Some(q)
    tagBuf,     \* the items of the current page not yet handed out by flatten
    tagEnded,   \* unfold has finished (tag_search_page returned None)
    tagRequests,\* the queries sent to /tags.json, in order
    tagServed,  \* the responses received, in order
    tagYielded, \* items handed to the consumer, in order
    \* the blocking Client of client.rs
    clSearch,   \* <<>> or <<locals of the Client::search call in progress>>
    clRequests, \* requests sent by the current (or latest) call, in order
    clServed,   \* the responses to those requests, in order
    clSleeps,   \* number of thread::sleep(REQ_COOLDOWN_DURATION) of that call
    clResult,   \* <<>> while a call runs, else <<what the latest call returned>>
    clUserAgent,\* <<>> or <<the user_agent argument given to Client::new>>
    clClient,   \* <<>> or <<the Client that Client::new returned>>
    clHeaders,  \* the header map sent with each request of clRequests
    clWire,     \* what a direct call of get_json did and what the transport gave it
    \* Cursor text encoding
    curStage,   \* "new", "encoded" or "parsed"
    curIn,      \* the cursor to encode
    curText,    \* its text, a sequence of characters
    curOut,     \* what parsing the text gave
    \* batch fetching of records by id
    bIds,       \* number of ids the caller gave
    bSource,    \* number of ids the id source still holds
    bBuf,       \* records of the current batch not yet handed out
    bEnded,     \* the sequence has ended
    bRequests,  \* the number of ids of each request sent, in order
    bServed,    \* the records each request returned, in order
    bYielded    \* records handed to the consumer, in order

rlVars == <<deadline, owner, waitq, pc, snap, wakeAt, ret, futOut, arrivals, lastStart, lastGap,
            lastEnd, slept, runs>>
stVars == <<kind, stream, served, requests, yielded, lastRet, endPolls, woken>>
tagVars == <<tagPhase, tagBuilt, tagAsked, tagState, tagBuf, tagEnded,
             tagRequests, tagServed, tagYielded>>
clVars == <<clSearch, clRequests, clServed, clSleeps, clResult, clUserAgent, clClient, clHeaders,
            clWire>>
curVars == <<curStage, curIn, curText, curOut>>
batchVars == <<bIds, bSource, bBuf, bEnded, bRequests, bServed, bYielded>>
vars == <<deadline, owner, waitq, pc, snap, wakeAt, ret, futOut, arrivals, lastStart, lastGap,
          lastEnd, slept, runs,
          kind, stream, served, requests, yielded, lastRet, endPolls, woken,
          tagPhase, tagBuilt, tagAsked, tagState, tagBuf, tagEnded,
          tagRequests, tagServed, tagYielded,
          clSearch, clRequests, clServed, clSleeps, clResult, clUserAgent, clClient, clHeaders,
          clWire,
          curStage, curIn, curText, curOut,
          bIds, bSource, bBuf, bEnded, bRequests, bServed, bYielded>>

Tasks == 1..NumTasks
Outcomes == {"ok", "err", "panic"}

Max(a, b) == IF a >= b THEN a ELSE b
Min(a, b) == IF a <= b THEN a ELSE b

\* Offsets older than this are all "long ago".
Floor == 0 - REQ_COOLDOWN_DURATION

\* An Instant, seen TickMs later.
Shift(x) == Max(x - TickMs, Floor)
ShiftOpt(o) == IF o = <<>> THEN <<>> ELSE <<Shift(o[1])>>

\* The `now` local n of RateLimit::lock, seen TickMs later, with the stored
\* deadline dl seen at the same instant: n < dl is kept.
ShiftNow(n, dl) ==
    IF dl # <<>> /\ n < dl[1]
    THEN Max(n - TickMs, Floor - TickMs)
    ELSE Shift(n)

\* Remove every occurrence of t from sequence s.
RECURSIVE Without(_, _)
Without(s, t) ==
    IF s = <<>> THEN <<>>
    ELSE IF Head(s) = t THEN Without(Tail(s), t)
    ELSE <<Head(s)>> \o Without(Tail(s), t)

InSeq(s, t) == \E i \in DOMAIN s : s[i] = t

\* ------------------------------------------------------------- RateLimit

\* tokio::sync::Mutex::lock by task t: taken at once when free, otherwise the
\* task joins the FIFO wait queue.  pcBase is pc before the attempt.
MutexLock(t, pcBase) ==
    IF owner = 0
    THEN /\ owner' = t
         /\ waitq' = waitq
         /\ pc' = [pcBase EXCEPT ![t] = "locked"]
    ELSE /\ owner' = owner
         /\ waitq' = Append(waitq, t)
         /\ pc' = [pcBase EXCEPT ![t] = "queued"]

\* Dropping the MutexGuard: the mutex is handed to the first waiter.
MutexUnlock(pcBase) ==
    IF waitq = <<>>
    THEN /\ owner' = 0
         /\ waitq' = waitq
         /\ pc' = pcBase
    ELSE /\ owner' = Head(waitq)
         /\ waitq' = Tail(waitq)
         /\ pc' = [pcBase EXCEPT ![Head(waitq)] = "locked"]

\* Guard::drop storing Some(Instant::now()) without the cooldown.
GuardDropDeadline_NoCooldown == <<0>>

\* Guard::drop: *self.0 = Some(Instant::now() + REQ_COOLDOWN_DURATION)
GuardDropDeadline == <<REQ_COOLDOWN_DURATION>>

\* The match in RateLimit::lock returning the Guard whatever the slot holds.
MayProceed_IgnoresDeadline(t) == TRUE

\* The match in RateLimit::lock: None, or Some(deadline) if now >= deadline.
MayProceed(t) == IF deadline = <<>> THEN TRUE ELSE snap[t] >= deadline[1]

\* check returning an error of the limiter in place of the result.
CheckReturn_LimiterError(r) == "limited"

\* `result` at the end of RateLimit::check.
CheckReturn(r) == r

\* RateLimit::lock returning the Guard after dropping the MutexGuard (the
\* mutex guards only the decision).
LockProceed_ReleasesMutex(t) ==
    /\ pc[t] = "locked"
    /\ owner = t
    /\ IF deadline = <<>> THEN TRUE ELSE snap[t] >= deadline[1]
    /\ MutexUnlock([pc EXCEPT ![t] = "inflight"])
    /\ lastGap' = IF lastStart = <<>> THEN <<>> ELSE <<0 - lastStart[1]>>
    /\ lastStart' = <<0>>
    /\ runs' = [runs EXCEPT ![t] = @ + 1]
    /\ UNCHANGED <<deadline, snap, wakeAt, ret, futOut, arrivals, lastEnd, slept>>
    /\ UNCHANGED stVars
    /\ UNCHANGED <<tagVars, clVars, curVars, batchVars>>

\* First iteration of the loop in RateLimit::lock, entered from check.
Call(t) ==
    /\ pc[t] = "idle"
    /\ snap' = [snap EXCEPT ![t] = 0]
    /\ MutexLock(t, pc)
    /\ arrivals' = Append(arrivals, t)
    /\ UNCHANGED <<deadline, wakeAt, ret, futOut, lastStart, lastGap, lastEnd, slept, runs>>
    /\ UNCHANGED stVars
    /\ UNCHANGED <<tagVars, clVars, curVars, batchVars>>

\* The match on the guard: return Guard(guard), keeping the mutex, or drop the
\* MutexGuard and sleep_until(deadline).
LockProceed(t) ==
    /\ pc[t] = "locked"
    /\ owner = t
    /\ MayProceed(t)
    /\ pc' = [pc EXCEPT ![t] = "inflight"]
    /\ lastGap' = IF lastStart = <<>> THEN <<>> ELSE <<0 - lastStart[1]>>
    /\ lastStart' = <<0>>
    /\ runs' = [runs EXCEPT ![t] = @ + 1]
    /\ UNCHANGED <<deadline, owner, waitq, snap, wakeAt, ret, futOut, arrivals, lastEnd, slept>>
    /\ UNCHANGED stVars
    /\ UNCHANGED <<tagVars, clVars, curVars, batchVars>>

\* lock sleeping inside the block that holds the MutexGuard.
LockSleep_KeepsMutex(t) ==
    /\ pc[t] = "locked"
    /\ owner = t
    /\ ~MayProceed(t)
    /\ wakeAt' = [wakeAt EXCEPT ![t] = deadline[1]]
    /\ pc' = [pc EXCEPT ![t] = "sleeping"]
    /\ slept' = [slept EXCEPT ![t] = TRUE]
    /\ UNCHANGED <<owner, waitq>>
    /\ UNCHANGED <<deadline, snap, ret, futOut, arrivals, lastStart, lastGap, lastEnd, runs>>
    /\ UNCHANGED stVars
    /\ UNCHANGED <<tagVars, clVars, curVars, batchVars>>

\* The deadline read under the mutex is still in the future: the MutexGuard
\* is dropped at the end of the block, then sleep_until(deadline).
LockSleep(t) ==
    /\ pc[t] = "locked"
    /\ owner = t
    /\ ~MayProceed(t)
    /\ wakeAt' = [wakeAt EXCEPT ![t] = deadline[1]]
    /\ MutexUnlock([pc EXCEPT ![t] = "sleeping"])
    /\ slept' = [slept EXCEPT ![t] = TRUE]
    /\ UNCHANGED <<deadline, snap, ret, futOut, arrivals, lastStart, lastGap, lastEnd, runs>>
    /\ UNCHANGED stVars
    /\ UNCHANGED <<tagVars, clVars, curVars, batchVars>>

\* sleep_until(deadline) returns; next iteration of the loop.
Wake(t) ==
    /\ pc[t] = "sleeping"
    /\ wakeAt[t] <= 0
    /\ snap' = [snap EXCEPT ![t] = 0]
    /\ wakeAt' = [wakeAt EXCEPT ![t] = 0]
    /\ MutexLock(t, pc)
    /\ UNCHANGED <<deadline, ret, futOut, arrivals, lastStart, lastGap, lastEnd, slept, runs>>
    /\ UNCHANGED stVars
    /\ UNCHANGED <<tagVars, clVars, curVars, batchVars>>

\* check updating the deadline after fut.await instead of in a Drop impl: a
\* panic skips the update.
Finish_PanicSkipsUpdate(t, r) ==
    /\ pc[t] = "inflight"
    /\ deadline' = IF r = "panic" THEN deadline ELSE <<REQ_COOLDOWN_DURATION>>
    /\ MutexUnlock([pc EXCEPT ![t] = "idle"])
    /\ futOut' = <<r>>
    /\ ret' = <<r>>
    /\ arrivals' = Without(arrivals, t)
    /\ snap' = [snap EXCEPT ![t] = 0]
    /\ lastEnd' = <<0>>
    /\ slept' = [slept EXCEPT ![t] = FALSE]
    /\ runs' = [runs EXCEPT ![t] = 0]
    /\ UNCHANGED <<wakeAt, lastStart, lastGap>>
    /\ UNCHANGED stVars
    /\ UNCHANGED <<tagVars, clVars, curVars, batchVars>>

\* fut.await completes with r (a panic unwinds through check), the Guard is
\* dropped and check returns.
Finish(t, r) ==
    /\ pc[t] = "inflight"
    /\ deadline' = GuardDropDeadline
    /\ MutexUnlock([pc EXCEPT ![t] = "idle"])
    /\ futOut' = <<r>>
    /\ ret' = <<CheckReturn(r)>>
    /\ arrivals' = Without(arrivals, t)
    /\ snap' = [snap EXCEPT ![t] = 0]
    /\ lastEnd' = <<0>>
    /\ slept' = [slept EXCEPT ![t] = FALSE]
    /\ runs' = [runs EXCEPT ![t] = 0]
    /\ UNCHANGED <<wakeAt, lastStart, lastGap>>
    /\ UNCHANGED stVars
    /\ UNCHANGED <<tagVars, clVars, curVars, batchVars>>

\* The future returned by check is dropped at a suspension point.
CancelQueued(t) ==
    /\ pc[t] = "queued"
    /\ waitq' = Without(waitq, t)
    /\ pc' = [pc EXCEPT ![t] = "idle"]
    /\ UNCHANGED <<owner, deadline>>

CancelLocked(t) ==
    /\ pc[t] = "locked"
    /\ MutexUnlock([pc EXCEPT ![t] = "idle"])
    /\ UNCHANGED deadline

CancelSleeping(t) ==
    /\ pc[t] = "sleeping"
    /\ pc' = [pc EXCEPT ![t] = "idle"]
    /\ UNCHANGED <<owner, waitq, deadline>>

\* A dropped check whose Guard is leaked: neither deadline write nor unlock.
CancelInflight_LeaksGuard(t) ==
    /\ pc[t] = "inflight"
    /\ pc' = [pc EXCEPT ![t] = "idle"]
    /\ UNCHANGED <<owner, waitq, deadline>>

CancelInflight(t) ==
    /\ pc[t] = "inflight"
    /\ deadline' = GuardDropDeadline
    /\ MutexUnlock([pc EXCEPT ![t] = "idle"])

Cancel(t) ==
    /\ \/ CancelQueued(t)
       \/ CancelLocked(t)
       \/ CancelSleeping(t)
       \/ CancelInflight(t)
    /\ futOut' = <<"dropped">>
    /\ ret' = <<"dropped">>
    /\ arrivals' = Without(arrivals, t)
    /\ snap' = [snap EXCEPT ![t] = 0]
    /\ wakeAt' = [wakeAt EXCEPT ![t] = 0]
    /\ lastEnd' = IF pc[t] = "inflight" THEN <<0>> ELSE lastEnd
    /\ slept' = [slept EXCEPT ![t] = FALSE]
    /\ runs' = [runs EXCEPT ![t] = 0]
    /\ UNCHANGED <<lastStart, lastGap>>
    /\ UNCHANGED stVars
    /\ UNCHANGED <<tagVars, clVars, curVars, batchVars>>

\* TickMs of wall-clock time pass.
Tick ==
    /\ deadline' = ShiftOpt(deadline)
    /\ snap' = [t \in Tasks |->
                  IF pc[t] \in {"queued", "locked"} THEN ShiftNow(snap[t], deadline) ELSE snap[t]]
    /\ wakeAt' = [t \in Tasks |-> IF pc[t] = "sleeping" THEN Shift(wakeAt[t]) ELSE wakeAt[t]]
    /\ lastStart' = ShiftOpt(lastStart)
    /\ lastEnd' = ShiftOpt(lastEnd)
    /\ UNCHANGED <<owner, waitq, pc, ret, futOut, arrivals, lastGap, slept, runs>>
    /\ UNCHANGED stVars
    /\ UNCHANGED <<tagVars, clVars, curVars, batchVars>>

\* ------------------------------------------------- PostStream, PoolStream

\* A JSON element of a response array: its id, and whether try_from decodes it.
Records == [id : 1..MaxId, ok : BOOLEAN]

RECURSIVE SeqsUpTo(_, _)
SeqsUpTo(S, n) ==
    IF n = 0 THEN {<<>>}
    ELSE LET shorter == SeqsUpTo(S, n - 1)
         IN shorter \cup {Append(q, x) : q \in {r \in shorter : Len(r) = n - 1}, x \in S}

Bodies == SeqsUpTo(Records, MaxPageLen)

\* Errors of the fetch future (HTTP status, transport, undecodable body).
FetchErrors == {"Http", "CannotSendRequest", "Serial"}

\* Outcome of polling the fetch future: still pending, or ready with the
\* result of get_json_endpoint.
PollOutcomes ==
    {[ready |-> FALSE, ok |-> FALSE, body |-> <<>>, err |-> ""]}
    \cup {[ready |-> TRUE, ok |-> TRUE, body |-> b, err |-> ""] : b \in Bodies}
    \cup {[ready |-> TRUE, ok |-> FALSE, body |-> <<>>, err |-> e] : e \in FetchErrors}

\* The server answers at most MaxPages requests with a page of its choice;
\* after that it only sends an empty page or fails.
ServerAllows(fp) ==
    Len(served) < MaxPages \/ ~fp.ready \/ ~fp.ok \/ fp.body = <<>>

OkItem(id) == [ok |-> TRUE, id |-> id, err |-> ""]
ErrItem(e) == [ok |-> FALSE, id |-> 0, err |-> e]

\* Post::try_from / PoolListEntry::try_from on one element.
TryFrom(r) == IF r.ok THEN OkItem(r.id) ELSE ErrItem("PostDeserialization")

\* body.as_array().unwrap().iter().map(try_from).collect(), keeping the order
\* of the response array.
ChunkOf_NotReversed(body) == [i \in 1..Len(body) |-> TryFrom(body[i])]

\* body.as_array().unwrap().iter().rev().map(try_from).collect()
ChunkOf(body) == [i \in 1..Len(body) |-> TryFrom(body[Len(body) + 1 - i])]

\* this.chunk.pop(): the popped element and the remaining vector.
PopItem(chunk) == chunk[Len(chunk)]
PopRest(chunk) == SubSeq(chunk, 1, Len(chunk) - 1)

\* An empty page that does not mark the stream as ended.
EndedAfterPage_Never(chunk) == FALSE

\* this.ended = this.chunk.is_empty()
EndedAfterPage(chunk) == chunk = <<>>

\* The Err arm leaving `ended` alone.
OnFetchError_KeepsGoing(s) == [s EXCEPT !.query_future = <<>>]

\* Err(e) => { this.ended = true; ... } after this.query_future = None
OnFetchError(s) == [s EXCEPT !.query_future = <<>>, !.ended = TRUE]

\* The Ok arm without "the future is finished, drop it".
OnPage_KeepsFuture(s, body) ==
    [s EXCEPT !.chunk = ChunkOf(body),
              !.ended = EndedAfterPage(ChunkOf(body))]

\* Ok(body) => { this.chunk = ...; this.ended = this.chunk.is_empty(); }
OnPage(s, body) ==
    [s EXCEPT !.query_future = <<>>,
              !.chunk = ChunkOf(body),
              !.ended = EndedAfterPage(ChunkOf(body))]

\* The Err arm scheduling the request again instead of ending the stream.
PollFuture_RetriesOnError(s, fp) ==
    IF s.query_future = <<>>
    THEN [s |-> s, status |-> "NotFetching", err |-> "", got |-> <<>>]
    ELSE IF ~fp.ready
    THEN [s |-> [s EXCEPT !.query_future = <<"polled">>],
          status |-> "Pending", err |-> "", got |-> <<>>]
    ELSE IF fp.ok
    THEN [s |-> OnPage(s, fp.body), status |-> "NotFetching", err |-> "", got |-> <<fp>>]
    ELSE [s |-> [s EXCEPT !.query_future = <<"created">>],
          status |-> "Err", err |-> fp.err, got |-> <<fp>>]

\* "poll the pending query future if there's any": the stream afterwards, the
\* status (QueryPollRes of PostStream), the error and whether a response was
\* consumed.
PollFuture(s, fp) ==
    IF s.query_future = <<>>
    THEN [s |-> s, status |-> "NotFetching", err |-> "", got |-> <<>>]
    ELSE IF ~fp.ready
    THEN [s |-> [s EXCEPT !.query_future = <<"polled">>],
          status |-> "Pending", err |-> "", got |-> <<>>]
    ELSE IF fp.ok
    THEN [s |-> OnPage(s, fp.body), status |-> "NotFetching", err |-> "", got |-> <<fp>>]
    ELSE [s |-> OnFetchError(s), status |-> "Err", err |-> fp.err, got |-> <<fp>>]

\* The request with "&before_id={}" always present, 0 standing for None.
PostRequest_DefaultBeforeId(s) ==
    [page |-> IF s.query = "ordered" THEN <<s.page + 1>> ELSE <<>>,
     before_id |-> IF s.query = "ordered" THEN <<>>
                   ELSE IF s.last_id = <<>> THEN <<0>> ELSE s.last_id,
     tags |-> s.query # "none"]

\* The request PostStream builds: "&page={}" for an ordered query, else
\* "&before_id={}" when last_id is set, and "&tags={}" when there is a query.
PostRequest(s) ==
    [page |-> IF s.query = "ordered" THEN <<s.page + 1>> ELSE <<>>,
     before_id |-> IF s.query = "ordered" THEN <<>> ELSE s.last_id,
     tags |-> s.query # "none"]

\* The request sent without this.page += 1.
PostIssue_KeepsPage(s) == [s EXCEPT !.query_future = <<"created">>]

\* PostStream: this.page += 1 for an ordered query, then
\* this.query_future = Some(Box::pin(get_json_endpoint(..)))
PostIssue(s) ==
    [s EXCEPT !.page = IF s.query = "ordered" THEN s.page + 1 ELSE s.page,
              !.query_future = <<"created">>]

\* "get a post" that also starts the fetch of the page after this one.
PostPop_CreatesFuture(s) ==
    [s EXCEPT !.chunk = PopRest(s.chunk),
              !.last_id = IF PopItem(s.chunk).ok THEN <<PopItem(s.chunk).id>> ELSE s.last_id,
              !.query_future = <<"created">>]

\* "get a post": pop, and a decoded post becomes the new last_id.
PostPop(s) ==
    [s EXCEPT !.chunk = PopRest(s.chunk),
              !.last_id = IF PopItem(s.chunk).ok THEN <<PopItem(s.chunk).id>> ELSE s.last_id]

\* The fetch future has not resolved yet.
StillPending == [ready |-> FALSE, ok |-> FALSE, body |-> <<>>, err |-> ""]

\* PostStream::poll_next: the loop, run until it returns.  req and got
\* collect the request issued and the response consumed by this call; fp is
\* the answer of the first future that resolves during the call.
RECURSIVE PostPollNext(_, _, _, _)
PostPollNext(s, fp, req, got) ==
    LET a == PollFuture(s, fp) IN
    IF a.status = "Err"
    THEN [s |-> a.s, ret |-> "Item", item |-> <<ErrItem(a.err)>>,
          req |-> req, got |-> got \o a.got]
    ELSE IF a.status = "Pending"
    THEN [s |-> a.s, ret |-> "Pending", item |-> <<>>, req |-> req, got |-> got \o a.got]
    ELSE IF a.s.ended
    THEN [s |-> a.s, ret |-> "End", item |-> <<>>, req |-> req, got |-> got \o a.got]
    ELSE IF a.s.chunk # <<>>
    THEN [s |-> PostPop(a.s), ret |-> "Item", item |-> <<PopItem(a.s.chunk)>>,
          req |-> req, got |-> got \o a.got]
    ELSE PostPollNext(PostIssue(a.s),
                      IF a.got = <<>> THEN fp ELSE StillPending,
                      req \o <<PostRequest(a.s)>>,
                      got \o a.got)

\* The request PoolStream builds: "?page={}" and "&query={}".
PoolRequest(s) == [page |-> <<s.page>>, before_id |-> <<>>, tags |-> s.query # "none"]

\* PoolStream: page post-increment and the new, not yet polled, future.
PoolIssue(s) == [s EXCEPT !.page = s.page + 1, !.query_future = <<"created">>]

PoolPop(s) == [s EXCEPT !.chunk = PopRest(s.chunk)]

\* The tail of PoolStream::poll_next with the emptiness test before the
\* ended test.
PoolDecide_FetchFirst(s, got) ==
    IF s.chunk = <<>>
    THEN [s |-> PoolIssue(s), ret |-> "Pending", item |-> <<>>,
          req |-> <<PoolRequest(s)>>, got |-> got]
    ELSE [s |-> PoolPop(s), ret |-> "Item", item |-> <<PopItem(s.chunk)>>,
          req |-> <<>>, got |-> got]

\* The tail of PoolStream::poll_next: if this.ended / else if
\* this.chunk.is_empty() / else.
PoolDecide(s, got) ==
    IF s.ended
    THEN [s |-> s, ret |-> "End", item |-> <<>>, req |-> <<>>, got |-> got]
    ELSE IF s.chunk = <<>>
    THEN [s |-> PoolIssue(s), ret |-> "Pending", item |-> <<>>,
          req |-> <<PoolRequest(s)>>, got |-> got]
    ELSE [s |-> PoolPop(s), ret |-> "Item", item |-> <<PopItem(s.chunk)>>,
          req |-> <<>>, got |-> got]

\* PoolStream::poll_next
PoolPollNext(s, fp) ==
    LET a == PollFuture(s, fp) IN
    IF a.status = "Err"
    THEN [s |-> a.s, ret |-> "Item", item |-> <<ErrItem(a.err)>>, req |-> <<>>, got |-> a.got]
    ELSE IF a.status = "Pending"
    THEN [s |-> a.s, ret |-> "Pending", item |-> <<>>, req |-> <<>>, got |-> a.got]
    ELSE PoolDecide(a.s, a.got)

\* What one call of poll_next does to the stream and to the histories.
Polled(r) ==
    /\ stream' = r.s
    /\ lastRet' = r.ret
    /\ yielded' = yielded \o r.item
    /\ requests' = requests \o r.req
    /\ served' = served \o r.got
    /\ endPolls' = IF r.ret = "End" THEN Min(endPolls + 1, MaxEndPolls) ELSE endPolls
    /\ woken' = (r.ret # "Pending")

\* The consumer polls the PostStream; fp is what the fetch future answers if
\* this call polls it.
PostPoll(fp) ==
    /\ kind = "post"
    /\ ServerAllows(fp)
    /\ Polled(PostPollNext(stream, fp, <<>>, <<>>))
    /\ UNCHANGED kind
    /\ UNCHANGED rlVars
    /\ UNCHANGED <<tagVars, clVars, curVars, batchVars>>

\* The consumer polls the PoolStream.
PoolPoll(fp) ==
    /\ kind = "pool"
    /\ ServerAllows(fp)
    /\ Polled(PoolPollNext(stream, fp))
    /\ UNCHANGED kind
    /\ UNCHANGED rlVars
    /\ UNCHANGED <<tagVars, clVars, curVars, batchVars>>

\* The fetch future wakes the consumer task through the waker of the Context
\* it was last polled with.  A future that was created but never polled holds
\* no waker (and, being lazy, has not started its request).
FutureWakes ==
    /\ stream.query_future = <<"polled">>
    /\ ~woken
    /\ woken' = TRUE
    /\ UNCHANGED <<kind, stream, served, requests, yielded, lastRet, endPolls>>
    /\ UNCHANGED rlVars
    /\ UNCHANGED <<tagVars, clVars, curVars, batchVars>>

\* The executor polls the woken consumer task, and the fetch future, if this
\* call polls one, has its answer.
WokenPoll ==
    /\ woken
    /\ \E fp \in PollOutcomes : fp.ready /\ (PostPoll(fp) \/ PoolPoll(fp))

\* PostStream::new(client, query, start_id)
PostStreamNew(query, start_id) ==
    [query |-> query, query_future |-> <<>>, last_id |-> start_id,
     page |-> 0, chunk |-> <<>>, ended |-> FALSE]

\* PoolStream::new(client, query)
PoolStreamNew(query) ==
    [query |-> query, query_future |-> <<>>, last_id |-> <<>>,
     page |-> 1, chunk |-> <<>>, ended |-> FALSE]

StartIds == {<<>>} \cup {<<i>> : i \in 1..MaxId}

InitStream ==
    /\ kind \in {"post", "pool"}
    /\ \/ /\ kind = "post"
          /\ \E q \in {"none", "plain", "ordered"}, i \in StartIds :
                stream = PostStreamNew(q, i)
       \/ /\ kind = "pool"
          /\ \E q \in {"none", "plain"} : stream = PoolStreamNew(q)
    /\ served = <<>>
    /\ requests = <<>>
    /\ yielded = <<>>
    /\ lastRet = "none"
    /\ endPolls = 0
    /\ woken = TRUE

\* ------------------------------------------- tag::Query, Client::tag_search

\* client::Cursor, as tag.rs builds and matches it.
Page(p) == [kind |-> "Page", n |-> p]
Before(i) == [kind |-> "Before", n |-> i]
After(i) == [kind |-> "After", n |-> i]

\* tag::Order
Orders == {"IdAsc", "IdDsc", "Name", "Date", "Count", "Similarity"}

\* The arguments a caller passes to Query::page and Query::order; <<>> is None.
PageArgs ==
    {<<>>}
    \cup {<<Page(p)>> : p \in 1..MaxStartPage}
    \cup {<<Before(i)>> : i \in 1..(MaxTagId + 1)}
    \cup {<<After(i)>> : i \in 1..MaxTagId}
OrderArgs == {<<>>} \cup {<<o>> : o \in Orders}

\* The arguments a caller passes to Query::per_page, Query::id and
\* Query::hide_empty; <<>> is None.
PerPageArgs == {<<>>, <<75>>}
IdArgs == {<<>>, <<7>>}
HideEmptyArgs == BOOLEAN

\* Query::new(): Query::default().  Of the search filters, id (an Option) and
\* hide_empty (a bool) are kept; the other setters have the shape of these
\* two.
QueryNew ==
    [per_page |-> <<>>, page |-> <<>>, id |-> <<>>, order |-> <<>>, hide_empty |-> FALSE]

\* Query::per_page
QueryPerPage(q, per_page) == [q EXCEPT !.per_page = per_page]

\* Query::id
QueryId(q, id) == [q EXCEPT !.id = id]

\* Query::hide_empty
QueryHideEmpty(q, hide_empty) == [q EXCEPT !.hide_empty = hide_empty]

\* !matches!(self.page, None | Some(Cursor::Page(_)))
IsIdRelative(page) == page # <<>> /\ page[1].kind # "Page"

\* Query::page storing the cursor and leaving the order alone.
QueryPage_KeepsOrder(q, page) == [q EXCEPT !.page = page]

\* Query::page
QueryPage(q, page) ==
    [q EXCEPT !.page = page,
              !.order = IF IsIdRelative(page) THEN <<>> ELSE q.order]

\* Query::order storing the order and leaving the page alone.
QueryOrder_KeepsPage(q, order) == [q EXCEPT !.order = order]

\* Query::order
QueryOrder(q, order) ==
    [q EXCEPT !.page = IF order # <<>> /\ IsIdRelative(q.page) THEN <<>> ELSE q.page,
              !.order = order]

\* The ids of the tags of a /tags.json response array.
TagBodies == SeqsUpTo(1..MaxTagId, MaxTagPageLen)

\* What get_json_endpoint_query("/tags.json", &query) resolves to: an error,
\* MaybeTags::Empty (the object { tags: [] }) or MaybeTags::Items.
TagOutcomes ==
    {[ok |-> TRUE, shape |-> "Items", body |-> b, err |-> ""] : b \in TagBodies}
    \cup {[ok |-> TRUE, shape |-> "Empty", body |-> <<>>, err |-> ""]}
    \cup {[ok |-> FALSE, shape |-> "", body |-> <<>>, err |-> e] : e \in FetchErrors}

\* The first id of the page taken for its minimum.
MinOf_First(body) == body[1]

\* tags.iter().map(|x| x.id).minmax(): the two ends.
MinOf(body) == CHOOSE m \in {body[i] : i \in DOMAIN body} : \A i \in DOMAIN body : m <= body[i]
MaxOf(body) == CHOOSE m \in {body[i] : i \in DOMAIN body} : \A i \in DOMAIN body : m >= body[i]

\* The None arm with Date paged by number.
NextWithoutCursor_DateByPage(order, min, max) ==
    IF order = <<>> \/ order = <<"IdDsc">> THEN Before(min)
    ELSE IF order = <<"IdAsc">> THEN After(max)
    ELSE Page(2)

\* None => match query.order { ... }
NextWithoutCursor(order, min, max) ==
    IF order = <<>> \/ order \in {<<"IdDsc">>, <<"Date">>} THEN Before(min)
    ELSE IF order = <<"IdAsc">> THEN After(max)
    ELSE Page(2)

\* let next_page = match query.page { ... }
NextPage(q, min, max) ==
    IF q.page = <<>> THEN NextWithoutCursor(q.order, min, max)
    ELSE IF q.page[1].kind = "Before" THEN Before(min)
    ELSE IF q.page[1].kind = "After" THEN After(max)
    ELSE Page(q.page[1].n + 1)

\* The query of the next page built from Query::default().
NextQuery_FromDefault(q, body) ==
    [QueryNew EXCEPT !.page = <<NextPage(q, MinOf(body), MaxOf(body))>>,
                     !.order = q.order]

\* query.page = Some(next_page): the query handed back for the next page.
NextQuery(q, body) ==
    [q EXCEPT !.page = <<NextPage(q, MinOf(body), MaxOf(body))>>]

\* tag_search_page handing the query back after a failed request, so that
\* unfold asks for the same page again.
TagSearchPage_RetriesOnError(state, resp) ==
    IF state = <<>>
    THEN [ret |-> "None", items |-> <<>>, state |-> <<>>, req |-> <<>>, got |-> <<>>]
    ELSE IF ~resp.ok
    THEN [ret |-> "Some", items |-> <<ErrItem(resp.err)>>, state |-> state,
          req |-> state, got |-> <<resp>>]
    ELSE IF resp.body = <<>>
    THEN [ret |-> "None", items |-> <<>>, state |-> <<>>, req |-> state, got |-> <<resp>>]
    ELSE [ret |-> "Some",
          items |-> [i \in DOMAIN resp.body |-> OkItem(resp.body[i])],
          state |-> <<NextQuery(state[1], resp.body)>>,
          req |-> state, got |-> <<resp>>]

\* Client::tag_search_page(query) with the response resp: what it returns
\* ("None", or "Some" with the items and the next Option<Query>), the query
\* it sent and the response it consumed.
TagSearchPage(state, resp) ==
    IF state = <<>>
    THEN [ret |-> "None", items |-> <<>>, state |-> <<>>, req |-> <<>>, got |-> <<>>]
    ELSE IF ~resp.ok
    THEN [ret |-> "Some", items |-> <<ErrItem(resp.err)>>, state |-> <<>>,
          req |-> state, got |-> <<resp>>]
    ELSE IF resp.body = <<>>
    THEN [ret |-> "None", items |-> <<>>, state |-> <<>>, req |-> state, got |-> <<resp>>]
    ELSE [ret |-> "Some",
          items |-> [i \in DOMAIN resp.body |-> OkItem(resp.body[i])],
          state |-> <<NextQuery(state[1], resp.body)>>,
          req |-> state, got |-> <<resp>>]

\* The server answers at most MaxTagPages requests with a page of its choice.
TagServerAllows(resp) ==
    Len(tagServed) < MaxTagPages \/ ~resp.ok \/ resp.body = <<>>

\* The caller chains .page(page) on the Query.
BuildPage(page) ==
    /\ tagPhase = "build"
    /\ tagBuilt < MaxBuildCalls
    /\ tagState' = <<QueryPage(tagState[1], page)>>
    /\ tagAsked' = [tagAsked EXCEPT !.page = page, !.last = "page"]
    /\ tagBuilt' = tagBuilt + 1
    /\ UNCHANGED <<tagPhase, tagBuf, tagEnded, tagRequests, tagServed, tagYielded>>
    /\ UNCHANGED <<rlVars, stVars, clVars, curVars, batchVars>>

\* The caller chains .order(order) on the Query.
BuildOrder(order) ==
    /\ tagPhase = "build"
    /\ tagBuilt < MaxBuildCalls
    /\ tagState' = <<QueryOrder(tagState[1], order)>>
    /\ tagAsked' = [tagAsked EXCEPT !.order = order, !.last = "order"]
    /\ tagBuilt' = tagBuilt + 1
    /\ UNCHANGED <<tagPhase, tagBuf, tagEnded, tagRequests, tagServed, tagYielded>>
    /\ UNCHANGED <<rlVars, stVars, clVars, curVars, batchVars>>

\* The caller chains .per_page(per_page) on the Query.
BuildPerPage(per_page) ==
    /\ tagPhase = "build"
    /\ tagBuilt < MaxBuildCalls
    /\ tagState' = <<QueryPerPage(tagState[1], per_page)>>
    /\ tagBuilt' = tagBuilt + 1
    /\ UNCHANGED <<tagPhase, tagAsked, tagBuf, tagEnded, tagRequests, tagServed, tagYielded>>
    /\ UNCHANGED <<rlVars, stVars, clVars, curVars, batchVars>>

\* The caller chains .id(id) on the Query.
BuildId(id) ==
    /\ tagPhase = "build"
    /\ tagBuilt < MaxBuildCalls
    /\ tagState' = <<QueryId(tagState[1], id)>>
    /\ tagBuilt' = tagBuilt + 1
    /\ UNCHANGED <<tagPhase, tagAsked, tagBuf, tagEnded, tagRequests, tagServed, tagYielded>>
    /\ UNCHANGED <<rlVars, stVars, clVars, curVars, batchVars>>

\* The caller chains .hide_empty(hide_empty) on the Query.
BuildHideEmpty(hide_empty) ==
    /\ tagPhase = "build"
    /\ tagBuilt < MaxBuildCalls
    /\ tagState' = <<QueryHideEmpty(tagState[1], hide_empty)>>
    /\ tagBuilt' = tagBuilt + 1
    /\ UNCHANGED <<tagPhase, tagAsked, tagBuf, tagEnded, tagRequests, tagServed, tagYielded>>
    /\ UNCHANGED <<rlVars, stVars, clVars, curVars, batchVars>>

\* client.tag_search(query): unfold(Some(query), ..).map(iter).flatten()
TagSearch ==
    /\ tagPhase = "build"
    /\ tagPhase' = "stream"
    /\ UNCHANGED <<tagBuilt, tagAsked, tagState, tagBuf, tagEnded,
                   tagRequests, tagServed, tagYielded>>
    /\ UNCHANGED <<rlVars, stVars, clVars, curVars, batchVars>>

\* One pull on the stream of tag_search that returns an item or the end:
\* flatten hands out the next item of the current page, or unfold runs
\* tag_search_page and flatten hands out the first item of what it returned.
\* The stream is not polled again after it has ended.
TagPoll(resp) ==
    /\ tagPhase = "stream"
    /\ ~tagEnded
    /\ IF tagBuf # <<>>
       THEN /\ tagYielded' = Append(tagYielded, Head(tagBuf))
            /\ tagBuf' = Tail(tagBuf)
            /\ UNCHANGED <<tagState, tagEnded, tagRequests, tagServed>>
       ELSE LET r == TagSearchPage(tagState, resp) IN
            /\ TagServerAllows(resp)
            /\ tagState' = r.state
            /\ tagRequests' = tagRequests \o r.req
            /\ tagServed' = tagServed \o r.got
            /\ tagEnded' = (r.ret = "None")
            /\ tagYielded' = IF r.items = <<>> THEN tagYielded
                             ELSE Append(tagYielded, Head(r.items))
            /\ tagBuf' = IF r.items = <<>> THEN <<>> ELSE Tail(r.items)
    /\ UNCHANGED <<tagPhase, tagBuilt, tagAsked>>
    /\ UNCHANGED <<rlVars, stVars, clVars, curVars, batchVars>>

InitTag ==
    /\ tagPhase = "build"
    /\ tagBuilt = 0
    /\ tagAsked = [page |-> <<>>, order |-> <<>>, last |-> "none"]
    /\ tagState = <<QueryNew>>
    /\ tagBuf = <<>>
    /\ tagEnded = FALSE
    /\ tagRequests = <<>>
    /\ tagServed = <<>>
    /\ tagYielded = <<>>

\* ------------------------------------------------- client.rs (blocking Client)

\* A Vec<Post> is kept as its length and the lowest id it holds (0 when
\* empty): the code uses a page only through its emptiness, the number of
\* posts pushed and the minimum of the ids.
EmptyPosts == [len |-> 0, lo |-> 0]
Posts(n, lo) == IF n = 0 THEN EmptyPosts ELSE [len |-> n, lo |-> lo]

ClOk(posts) == [ok |-> TRUE, err |-> "", posts |-> posts, args |-> <<>>]
ClErr(e) == [ok |-> FALSE, err |-> e, posts |-> EmptyPosts, args |-> <<>>]

\* Error::AboveLimit(option, value, max)
AboveLimit(option, value, max) ==
    [ok |-> FALSE, err |-> "AboveLimit", posts |-> EmptyPosts, args |-> <<option, value, max>>]

\* check_limit rejecting the hard limit itself.
CheckLimit_Inclusive(limit) ==
    IF limit >= LIST_HARD_LIMIT
    THEN AboveLimit("limit", limit, LIST_HARD_LIMIT)
    ELSE ClOk(EmptyPosts)

\* check_limit
CheckLimit(limit) ==
    IF limit > LIST_HARD_LIMIT
    THEN AboveLimit("limit", limit, LIST_HARD_LIMIT)
    ELSE ClOk(EmptyPosts)

\* The limit arguments callers pass: 0, 1 and the values around the
\* multiples of the hard limit.
ClLimits ==
    {0, 1} \cup {k * LIST_HARD_LIMIT + d : k \in 1..MaxBatches, d \in {0 - 1, 0, 1}}

\* How many posts the server puts in the answer to a request for b posts:
\* none, one, one short, as many, or one more than asked.
PageLens(b) == {n \in {0, 1, b - 1, b, b + 1} : n >= 0}

\* The HTTP status codes the transport is made to answer with.
StatusCodes == {200, 204, 301, 403, 404, 500, 503}

\* What self.client.get(url).headers(..).send() and the reading of the body
\* give: send() fails, or a response with a status and a body that is or is
\* not UTF-8 and is or is not JSON.
WireOutcomes ==
    {[sent |-> FALSE, status |-> 0, utf8 |-> FALSE, json |-> FALSE]}
    \cup {[sent |-> TRUE, status |-> c, utf8 |-> u, json |-> u /\ j] :
             c \in StatusCodes, u \in BOOLEAN, j \in BOOLEAN}

\* StatusCode::is_success
IsSuccess(status) == status >= 200 /\ status <= 299

\* Error::Http(status)
HttpError(status) == [ok |-> FALSE, err |-> "Http", posts |-> EmptyPosts, args |-> <<status>>]

\* get_json reading the body whatever the status is.
GetJson_StatusIgnored(wire) ==
    [steps |-> <<"sleep", "send">>,
     res |-> IF ~wire.sent THEN ClErr("CannotSendRequest")
             ELSE IF ~wire.utf8 THEN ClErr("Serial")
             ELSE IF ~wire.json THEN ClErr("Serial")
             ELSE ClOk(EmptyPosts)]

\* Client::get_json: thread::sleep(REQ_COOLDOWN_DURATION), one send(), and
\* the match on its result.
GetJson(wire) ==
    [steps |-> <<"sleep", "send">>,
     res |-> IF ~wire.sent THEN ClErr("CannotSendRequest")
             ELSE IF ~IsSuccess(wire.status) THEN HttpError(wire.status)
             ELSE IF ~wire.utf8 THEN ClErr("Serial")
             ELSE IF ~wire.json THEN ClErr("Serial")
             ELSE ClOk(EmptyPosts)]

\* The errors get_json can return.
GetJsonErrors == {GetJson(w).res.err : w \in {x \in WireOutcomes : ~GetJson(x).res.ok}}

\* What the HTTP exchange of get_json and the decoding of the posts come to
\* for a request of b posts: a transport, status or JSON error, an array with
\* an element Post::try_from rejects, or an array of posts.
ClOutcomes(b) ==
    {[ok |-> FALSE, err |-> e, decodes |-> FALSE, posts |-> EmptyPosts] : e \in GetJsonErrors}
    \cup {[ok |-> TRUE, err |-> "", decodes |-> FALSE, posts |-> Posts(1, 1)]}
    \cup {[ok |-> TRUE, err |-> "", decodes |-> TRUE, posts |-> Posts(n, lo)] :
             n \in PageLens(b), lo \in 1..MaxPostId}

\* The server answers at most MaxClRequests requests of a call with posts.
ClServerAllows(sent, resp) ==
    Len(sent) < MaxClRequests \/ ~resp.ok \/ resp.posts.len = 0

\* get_json followed by the loop pushing Post::try_from(p)?
GetPosts(resp) ==
    IF ~resp.ok THEN ClErr(resp.err)
    ELSE IF ~resp.decodes THEN ClErr("PostDeserialization")
    ELSE ClOk(resp.posts)

\* The body shared by list, list_before and list_page: check_limit(limit)?,
\* then get_json (sleep, send) and the decoding.  req is the request the URL
\* describes.
ListBody(limit, req, resp) ==
    IF ~CheckLimit(limit).ok
    THEN [res |-> CheckLimit(limit), reqs |-> <<>>, got |-> <<>>, sleeps |-> 0]
    ELSE [res |-> GetPosts(resp), reqs |-> <<req>>, got |-> <<resp>>, sleeps |-> 1]

ClRequest(limit, before_id, page, ordered) ==
    [limit |-> limit, before_id |-> before_id, page |-> page, ordered |-> ordered]

\* Client::list, Client::list_before, Client::list_page
List(ordered, limit, resp) ==
    ListBody(limit, ClRequest(limit, <<>>, <<>>, ordered), resp)
ListBefore(ordered, limit, before_id, resp) ==
    ListBody(limit, ClRequest(limit, <<before_id>>, <<>>, ordered), resp)
ListPage(ordered, limit, page, resp) ==
    ListBody(limit, ClRequest(limit, <<>>, <<page>>, ordered), resp)

\* The batch asked without the cap of the hard limit.
Batch_Uncapped(left) == left

\* let batch = left.min(LIST_HARD_LIMIT)
Batch(left) == Min(left, LIST_HARD_LIMIT)

\* The request size of the next iteration of the loop of Client::search.
NextBatch(s) == Batch(s.limit - s.len)

\* The for loop keeping the lowest id of the page at hand only.
Gather_LastPageLowest(s, page) ==
    [s EXCEPT !.len = s.len + page.len, !.lowest_id = <<page.lo>>]

\* The for loop of Client::search over a non-empty page.
Gather(s, page) ==
    [s EXCEPT !.len = s.len + page.len,
              !.lowest_id = IF s.lowest_id = <<>> THEN <<page.lo>>
                            ELSE <<Min(page.lo, s.lowest_id[1])>>]

\* The posts the search has gathered.
Gathered(s) == Posts(s.len, IF s.lowest_id = <<>> THEN 0 ELSE s.lowest_id[1])

\* A user agent is a byte string, kept as the sequence of its bytes: b"",
\* b"rs", b"M" and b"\n".
UserAgents == {<<>>, <<114, 115>>, <<77>>, <<10>>}

\* HeaderValue::from_bytes accepts the tab and the bytes from 32 on, except 127.
ValidHeaderValue(bytes) ==
    \A i \in DOMAIN bytes : bytes[i] = 9 \/ (bytes[i] >= 32 /\ bytes[i] # 127)

\* create_header_map without the test for the empty user agent.
CreateHeaderMap_AllowsEmpty(user_agent) ==
    IF ~ValidHeaderValue(user_agent)
    THEN [ok |-> FALSE, err |-> "CannotCreateClient", headers |-> <<>>]
    ELSE [ok |-> TRUE, err |-> "", headers |-> <<[user_agent |-> user_agent]>>]

\* create_header_map: the empty user agent and the bytes HeaderValue refuses
\* both end in Error::CannotCreateClient.
CreateHeaderMap(user_agent) ==
    IF user_agent = <<>>
    THEN [ok |-> FALSE, err |-> "CannotCreateClient", headers |-> <<>>]
    ELSE IF ~ValidHeaderValue(user_agent)
    THEN [ok |-> FALSE, err |-> "CannotCreateClient", headers |-> <<>>]
    ELSE [ok |-> TRUE, err |-> "", headers |-> <<[user_agent |-> user_agent]>>]

\* Client::new(user_agent): headers: create_header_map(user_agent)?
ClientNew(user_agent) ==
    LET h == CreateHeaderMap(user_agent)
    IN IF h.ok THEN [ok |-> TRUE, err |-> "", client |-> <<[headers |-> h.headers[1]]>>]
       ELSE [ok |-> FALSE, err |-> h.err, client |-> <<>>]

\* get_json: .headers(self.headers.clone()) on each request it sends.
SentHeaders(reqs) == [i \in DOMAIN reqs |-> clClient[1].headers]

\* Client::new(user_agent) is called, once.
ClNew(user_agent) ==
    /\ clUserAgent = <<>>
    /\ clUserAgent' = <<user_agent>>
    /\ clClient' = ClientNew(user_agent).client
    /\ clResult' = IF ClientNew(user_agent).ok THEN <<>>
                   ELSE <<[op |-> "new", limit |-> 0, res |-> ClErr(ClientNew(user_agent).err)]>>
    /\ UNCHANGED <<clSearch, clRequests, clServed, clSleeps, clHeaders, clWire>>
    /\ UNCHANGED <<rlVars, stVars, tagVars, curVars, batchVars>>

\* A Client exists and no call has been made on it yet.  The Client holds
\* only its HTTP client and its headers, so a call finds the same state after
\* any number of earlier calls.
ClFresh == clClient # <<>> /\ clSearch = <<>> /\ clResult = <<>>

\* A finished call of the Client: what it returned, after sending reqs,
\* receiving got and sleeping `sleeps` times.
ClReturn(op, limit, res, reqs, got, sleeps) ==
    /\ clResult' = <<[op |-> op, limit |-> limit, res |-> res]>>
    /\ clRequests' = reqs
    /\ clServed' = got
    /\ clSleeps' = sleeps
    /\ clSearch' = <<>>
    /\ clHeaders' = SentHeaders(reqs)
    /\ UNCHANGED <<clUserAgent, clClient, clWire>>
    /\ UNCHANGED <<rlVars, stVars, tagVars, curVars, batchVars>>

\* client.list(tags, limit)
ClList(ordered, limit, resp) ==
    /\ ClFresh
    /\ LET r == List(ordered, limit, resp)
       IN ClReturn("list", limit, r.res, r.reqs, r.got, r.sleeps)

\* client.list_before(tags, limit, before_id)
ClListBefore(ordered, limit, before_id, resp) ==
    /\ ClFresh
    /\ LET r == ListBefore(ordered, limit, before_id, resp)
       IN ClReturn("list_before", limit, r.res, r.reqs, r.got, r.sleeps)

\* client.list_page(tags, limit, page)
ClListPage(ordered, limit, page, resp) ==
    /\ ClFresh
    /\ LET r == ListPage(ordered, limit, page, resp)
       IN ClReturn("list_page", limit, r.res, r.reqs, r.got, r.sleeps)

\* A direct call of get_json(url), as the tests of client.rs make it.
ClGetJson(wire) ==
    /\ ClFresh
    /\ clResult' = <<[op |-> "get_json", limit |-> 0, res |-> GetJson(wire).res]>>
    /\ clWire' = <<[wire |-> wire, steps |-> GetJson(wire).steps]>>
    /\ clRequests' = [i \in 1..Cardinality({k \in DOMAIN GetJson(wire).steps :
                                               GetJson(wire).steps[k] = "send"}) |->
                         [url |-> "show"]]
    /\ clHeaders' = [i \in DOMAIN clRequests' |-> clClient[1].headers]
    /\ clSleeps' = Cardinality({k \in DOMAIN GetJson(wire).steps :
                                  GetJson(wire).steps[k] = "sleep"})
    /\ UNCHANGED <<clSearch, clServed, clUserAgent, clClient>>
    /\ UNCHANGED <<rlVars, stVars, tagVars, curVars, batchVars>>

\* An ordered search that caps its request at the hard limit, as one
\* iteration of the unordered loop would.
ClSearchOrdered_Batched(limit, resp) ==
    /\ ClFresh
    /\ LET r == List(TRUE, Batch(limit), resp)
       IN ClReturn("search_ordered", limit, r.res, r.reqs, r.got, r.sleeps)

\* client.search(q, limit) with query.ordered: self.list(query, limit)
ClSearchOrdered(limit, resp) ==
    /\ ClFresh
    /\ LET r == List(TRUE, limit, resp)
       IN ClReturn("search_ordered", limit, r.res, r.reqs, r.got, r.sleeps)

\* client.search on an unordered query entering the loop without the test
\* of its condition.
ClSearchStart_EntersLoop(limit) ==
    /\ ClFresh
    /\ clSearch' = <<[limit |-> limit, len |-> 0, lowest_id |-> <<>>]>>
    /\ clRequests' = <<>>
    /\ clServed' = <<>>
    /\ clSleeps' = 0
    /\ clResult' = <<>>
    /\ UNCHANGED <<clUserAgent, clClient, clHeaders, clWire>>
    /\ UNCHANGED <<rlVars, stVars, tagVars, curVars, batchVars>>

\* client.search(q, limit) on an unordered query, up to the first test of
\* the while loop: with limit = 0 it returns the empty Vec at once.
ClSearchStart(limit) ==
    /\ ClFresh
    /\ IF limit = 0
       THEN ClReturn("search", limit, ClOk(EmptyPosts), <<>>, <<>>, 0)
       ELSE /\ clSearch' = <<[limit |-> limit, len |-> 0, lowest_id |-> <<>>]>>
            /\ clRequests' = <<>>
            /\ clServed' = <<>>
            /\ clSleeps' = 0
            /\ clResult' = <<>>
            /\ UNCHANGED <<clUserAgent, clClient, clHeaders, clWire>>
            /\ UNCHANGED <<rlVars, stVars, tagVars, curVars, batchVars>>

\* The iteration handing back the posts gathered so far when its request
\* fails.
ClSearchStep_ReturnsPartial(resp) ==
    /\ clSearch # <<>>
    /\ ClServerAllows(clRequests, resp)
    /\ LET s == clSearch[1]
           r == IF s.lowest_id = <<>>
                THEN List(FALSE, NextBatch(s), resp)
                ELSE ListBefore(FALSE, NextBatch(s), s.lowest_id[1], resp)
           g == Gather(s, r.res.posts)
       IN IF ~r.res.ok \/ r.res.posts.len = 0
          THEN ClReturn("search", s.limit, ClOk(Gathered(s)),
                        clRequests \o r.reqs, clServed \o r.got, clSleeps + r.sleeps)
          ELSE IF g.len >= g.limit
          THEN ClReturn("search", s.limit, ClOk(Gathered(g)),
                        clRequests \o r.reqs, clServed \o r.got, clSleeps + r.sleeps)
          ELSE /\ clSearch' = <<g>>
               /\ clRequests' = clRequests \o r.reqs
               /\ clServed' = clServed \o r.got
               /\ clSleeps' = clSleeps + r.sleeps
               /\ clResult' = <<>>
               /\ clHeaders' = SentHeaders(clRequests \o r.reqs)
               /\ UNCHANGED <<clUserAgent, clClient, clWire>>
               /\ UNCHANGED <<rlVars, stVars, tagVars, curVars, batchVars>>

\* One iteration of the while loop of Client::search and the loop test that
\* follows it.
ClSearchStep(resp) ==
    /\ clSearch # <<>>
    /\ ClServerAllows(clRequests, resp)
    /\ LET s == clSearch[1]
           r == IF s.lowest_id = <<>>
                THEN List(FALSE, NextBatch(s), resp)
                ELSE ListBefore(FALSE, NextBatch(s), s.lowest_id[1], resp)
           g == Gather(s, r.res.posts)
       IN IF ~r.res.ok
          THEN ClReturn("search", s.limit, r.res,
                        clRequests \o r.reqs, clServed \o r.got, clSleeps + r.sleeps)
          ELSE IF r.res.posts.len = 0
          THEN ClReturn("search", s.limit, ClOk(Gathered(s)),
                        clRequests \o r.reqs, clServed \o r.got, clSleeps + r.sleeps)
          ELSE IF g.len >= g.limit
          THEN ClReturn("search", s.limit, ClOk(Gathered(g)),
                        clRequests \o r.reqs, clServed \o r.got, clSleeps + r.sleeps)
          ELSE /\ clSearch' = <<g>>
               /\ clRequests' = clRequests \o r.reqs
               /\ clServed' = clServed \o r.got
               /\ clSleeps' = clSleeps + r.sleeps
               /\ clResult' = <<>>
               /\ clHeaders' = SentHeaders(clRequests \o r.reqs)
               /\ UNCHANGED <<clUserAgent, clClient, clWire>>
               /\ UNCHANGED <<rlVars, stVars, tagVars, curVars, batchVars>>

InitClient ==
    /\ clSearch = <<>>
    /\ clRequests = <<>>
    /\ clServed = <<>>
    /\ clSleeps = 0
    /\ clResult = <<>>
    /\ clUserAgent = <<>>
    /\ clClient = <<>>
    /\ clHeaders = <<>>
    /\ clWire = <<>>

\* ------------------------------------------------ Cursor text encoding

\* The cursors whose encoding is examined.
Cursors ==
    {Page(n) : n \in 1..MaxCursorId}
    \cup {Before(i) : i \in 0..MaxCursorId}
    \cup {After(i) : i \in 0..MaxCursorId}

DigitChars == <<"0", "1", "2", "3", "4", "5", "6", "7", "8", "9">>

\* The decimal digits of n, most significant first.
RECURSIVE Digits(_)
Digits(n) ==
    IF n < 10 THEN <<DigitChars[n + 1]>>
    ELSE Digits(n \div 10) \o <<DigitChars[(n % 10) + 1]>>

IsDigit(c) == \E d \in DOMAIN DigitChars : DigitChars[d] = c
DigitValue(c) == (CHOOSE d \in DOMAIN DigitChars : DigitChars[d] = c) - 1

\* The number a text of digits denotes; acc is the value read so far.
RECURSIVE ParseDigits(_, _)
ParseDigits(text, acc) ==
    IF text = <<>> THEN acc
    ELSE ParseDigits(Tail(text), acc * 10 + DigitValue(Head(text)))

\* Parsing an unsigned integer: a non-empty text of digits only.
ParseNumber(text) ==
    IF text # <<>> /\ \A i \in DOMAIN text : IsDigit(text[i])
    THEN [ok |-> TRUE, n |-> ParseDigits(text, 0)]
    ELSE [ok |-> FALSE, n |-> 0]

\* The encoding with the letters of Before and After exchanged.
CursorToString_LettersSwapped(c) ==
    IF c.kind = "Page" THEN Digits(c.n)
    ELSE IF c.kind = "Before" THEN <<"a">> \o Digits(c.n)
    ELSE <<"b">> \o Digits(c.n)

\* Canonical text encoding: Page(n) -> digits, Before(id) -> "b" + digits,
\* After(id) -> "a" + digits.
CursorToString(c) ==
    IF c.kind = "Page" THEN Digits(c.n)
    ELSE IF c.kind = "Before" THEN <<"b">> \o Digits(c.n)
    ELSE <<"a">> \o Digits(c.n)

\* Parsing: leading 'a' => After, leading 'b' => Before, anything else
\* (including empty and all-digit) => Page.
CursorParse(text) ==
    IF text # <<>> /\ Head(text) = "a"
    THEN [ok |-> ParseNumber(Tail(text)).ok, cursor |-> After(ParseNumber(Tail(text)).n)]
    ELSE IF text # <<>> /\ Head(text) = "b"
    THEN [ok |-> ParseNumber(Tail(text)).ok, cursor |-> Before(ParseNumber(Tail(text)).n)]
    ELSE [ok |-> ParseNumber(text).ok, cursor |-> Page(ParseNumber(text).n)]

\* The cursor is written as text.
CursorEncode ==
    /\ curStage = "new"
    /\ curStage' = "encoded"
    /\ curText' = CursorToString(curIn)
    /\ UNCHANGED <<curIn, curOut>>
    /\ UNCHANGED <<rlVars, stVars, tagVars, clVars, batchVars>>

\* The text is read back.
CursorDecode ==
    /\ curStage = "encoded"
    /\ curStage' = "parsed"
    /\ curOut' = <<CursorParse(curText)>>
    /\ UNCHANGED <<curIn, curText>>
    /\ UNCHANGED <<rlVars, stVars, tagVars, clVars, batchVars>>

InitCursor ==
    /\ curStage = "new"
    /\ curIn \in Cursors
    /\ curText = <<>>
    /\ curOut = <<>>

InitCursorIdle ==
    /\ curStage = "new"
    /\ curIn = Page(1)
    /\ curText = <<>>
    /\ curOut = <<>>

\* ------------------------------------------------------- BatchByIdFetcher

\* The fixed maximum size of a batch of ids.
BATCH_SIZE == 100

\* The sizes of the id collections callers pass: 0, 1, the values around the
\* multiples of the batch size, and a multiple and a half.
IdCounts ==
    {0, 1} \cup {k * BATCH_SIZE + d : k \in 1..MaxIdBatches, d \in {0 - 1, 0, 1, BATCH_SIZE \div 2}}

\* How many records the server returns for a batch of b ids: none, one, one
\* short or all of them.
BatchLens(b) == {m \in {0, 1, b - 1, b} : m >= 0}

\* The whole id collection sent in one request.
NextBatchSize_Whole(left) == left

\* The next batch: up to BATCH_SIZE ids taken from the id source.
NextBatchSize(left) == Min(left, BATCH_SIZE)

\* A pull that finds no record buffered and ids left in the source takes the
\* next batch and sends its request.
BatchIssue ==
    /\ ~bEnded
    /\ bBuf = 0
    /\ Len(bServed) = Len(bRequests)
    /\ bSource > 0
    /\ bRequests' = Append(bRequests, NextBatchSize(bSource))
    /\ bSource' = bSource - NextBatchSize(bSource)
    /\ UNCHANGED <<bIds, bBuf, bEnded, bServed, bYielded>>
    /\ UNCHANGED <<rlVars, stVars, tagVars, clVars, curVars>>

\* The response of the outstanding request arrives with m records.
BatchReceive(m) ==
    /\ Len(bServed) < Len(bRequests)
    /\ m \in BatchLens(bRequests[Len(bRequests)])
    /\ bServed' = Append(bServed, m)
    /\ bYielded' = Append(bYielded, 0)
    /\ bBuf' = m
    /\ UNCHANGED <<bIds, bSource, bEnded, bRequests>>
    /\ UNCHANGED <<rlVars, stVars, tagVars, clVars, curVars>>

\* A pull hands out the next record of the current batch.
BatchYield ==
    /\ bBuf > 0
    /\ bBuf' = bBuf - 1
    /\ bYielded' = [bYielded EXCEPT ![Len(bYielded)] = @ + 1]
    /\ UNCHANGED <<bIds, bSource, bEnded, bRequests, bServed>>
    /\ UNCHANGED <<rlVars, stVars, tagVars, clVars, curVars>>

\* A pull that finds the id source exhausted and the last batch drained ends
\* the sequence.
BatchEnd ==
    /\ ~bEnded
    /\ bBuf = 0
    /\ Len(bServed) = Len(bRequests)
    /\ bSource = 0
    /\ bEnded' = TRUE
    /\ UNCHANGED <<bIds, bSource, bBuf, bRequests, bServed, bYielded>>
    /\ UNCHANGED <<rlVars, stVars, tagVars, clVars, curVars>>

InitBatch ==
    /\ bIds \in IdCounts
    /\ bSource = bIds
    /\ bBuf = 0
    /\ bEnded = FALSE
    /\ bRequests = <<>>
    /\ bServed = <<>>
    /\ bYielded = <<>>

InitBatchIdle ==
    /\ bIds = 0
    /\ bSource = 0
    /\ bBuf = 0
    /\ bEnded = FALSE
    /\ bRequests = <<>>
    /\ bServed = <<>>
    /\ bYielded = <<>>

InitRL ==
    /\ deadline = <<>>
    /\ owner = 0
    /\ waitq = <<>>
    /\ pc = [t \in Tasks |-> "idle"]
    /\ snap = [t \in Tasks |-> 0]
    /\ wakeAt = [t \in Tasks |-> 0]
    /\ ret = <<>>
    /\ futOut = <<>>
    /\ arrivals = <<>>
    /\ lastStart = <<>>
    /\ lastGap = <<>>
    /\ lastEnd = <<>>
    /\ slept = [t \in Tasks |-> FALSE]
    /\ runs = [t \in Tasks |-> 0]

InitStreamIdle ==
    /\ kind = "post"
    /\ stream = PostStreamNew("none", <<>>)
    /\ served = <<>>
    /\ requests = <<>>
    /\ yielded = <<>>
    /\ lastRet = "none"
    /\ endPolls = 0
    /\ woken = TRUE

Init ==
    InitRL /\ InitStreamIdle /\ InitTag /\ InitClient /\ InitCursorIdle /\ InitBatchIdle

Next ==
    \/ \E t \in Tasks : Call(t)
    \/ \E t \in Tasks : LockProceed(t)
    \/ \E t \in Tasks : LockSleep(t)
    \/ \E t \in Tasks : Wake(t)
    \/ \E t \in Tasks, r \in Outcomes : Finish(t, r)
    \/ \E t \in Tasks : Cancel(t)
    \/ Tick

Spec == Init /\ [][Next]_vars

StreamInit ==
    InitRL /\ InitStream /\ InitTag /\ InitClient /\ InitCursorIdle /\ InitBatchIdle

StreamNext ==
    \/ \E fp \in PollOutcomes : PostPoll(fp)
    \/ \E fp \in PollOutcomes : PoolPoll(fp)

StreamSpec == StreamInit /\ [][StreamNext]_vars

\* The stream driven by an executor.  A poll of a task that was not woken may
\* happen (StreamNext) but is not owed; the executor polls a woken task, a
\* polled fetch future wakes its task, and the server answers in the end.
StreamWakeNext ==
    \/ StreamNext
    \/ FutureWakes

StreamWakeSpec ==
    /\ StreamInit
    /\ [][StreamWakeNext]_vars
    /\ WF_vars(FutureWakes)
    /\ SF_vars(WokenPoll)

\* A fair scheduler, time that keeps passing and wrapped requests that
\* terminate; callers are free to call check or not, and to cancel or not.
FairSpec ==
    /\ Spec
    /\ WF_vars(Tick)
    /\ \A t \in Tasks : WF_vars(LockProceed(t))
    /\ \A t \in Tasks : WF_vars(LockSleep(t))
    /\ \A t \in Tasks : WF_vars(Wake(t))
    /\ \A t \in Tasks : WF_vars(\E r \in Outcomes : Finish(t, r))

TagInit ==
    InitRL /\ InitStreamIdle /\ InitTag /\ InitClient /\ InitCursorIdle /\ InitBatchIdle

TagNext ==
    \/ \E page \in PageArgs : BuildPage(page)
    \/ \E order \in OrderArgs : BuildOrder(order)
    \/ TagSearch
    \/ \E resp \in TagOutcomes : TagPoll(resp)

TagSpec == TagInit /\ [][TagNext]_vars

\* tag_search on a Query built with the setters of the page size and of the
\* search filters as well.
TagFrameNext ==
    \/ TagNext
    \/ \E per_page \in PerPageArgs : BuildPerPage(per_page)
    \/ \E id \in IdArgs : BuildId(id)
    \/ \E hide_empty \in HideEmptyArgs : BuildHideEmpty(hide_empty)

TagFrameSpec == TagInit /\ [][TagFrameNext]_vars

ClientInit ==
    InitRL /\ InitStreamIdle /\ InitTag /\ InitClient /\ InitCursorIdle /\ InitBatchIdle

\* A call on the blocking Client, followed to its return.
ClientNext ==
    \/ \E ua \in UserAgents : ClNew(ua)
    \/ \E wire \in WireOutcomes : ClGetJson(wire)
    \/ \E o \in BOOLEAN, l \in ClLimits : \E resp \in ClOutcomes(l) : ClList(o, l, resp)
    \/ \E o \in BOOLEAN, l \in ClLimits, i \in 1..MaxCursorArg : \E resp \in ClOutcomes(l) :
          ClListBefore(o, l, i, resp)
    \/ \E o \in BOOLEAN, l \in ClLimits, p \in 1..MaxCursorArg : \E resp \in ClOutcomes(l) :
          ClListPage(o, l, p, resp)
    \/ \E l \in ClLimits : \E resp \in ClOutcomes(l) : ClSearchOrdered(l, resp)
    \/ \E l \in ClLimits : ClSearchStart(l)
    \/ \E resp \in ClOutcomes(IF clSearch = <<>> THEN 0 ELSE NextBatch(clSearch[1])) :
          ClSearchStep(resp)

ClientSpec == ClientInit /\ [][ClientNext]_vars

\* A program that either calls the blocking Client or pulls a PostStream
\* over all posts.  The two share no state, so each behaviour follows one of
\* them.
EitherInit ==
    InitRL /\ InitStreamIdle /\ InitTag /\ InitClient /\ InitCursorIdle /\ InitBatchIdle

EitherNext ==
    \/ lastRet = "none" /\ ClientNext
    \/ clUserAgent = <<>> /\ \E fp \in PollOutcomes : PostPoll(fp)

EitherSpec == EitherInit /\ [][EitherNext]_vars

\* The blocking client with every request returning: an iteration of the
\* loop of Client::search that has begun comes to its end.
ClientFairSpec ==
    /\ ClientSpec
    /\ WF_vars(\E resp \in ClOutcomes(IF clSearch = <<>> THEN 0 ELSE NextBatch(clSearch[1])) :
                  ClSearchStep(resp))

CursorInit ==
    InitRL /\ InitStreamIdle /\ InitTag /\ InitClient /\ InitCursor /\ InitBatchIdle

CursorNext ==
    \/ CursorEncode
    \/ CursorDecode

CursorSpec == CursorInit /\ [][CursorNext]_vars

BatchInit ==
    InitRL /\ InitStreamIdle /\ InitTag /\ InitClient /\ InitCursorIdle /\ InitBatch

BatchNext ==
    \/ BatchIssue
    \/ \E m \in 0..BATCH_SIZE : BatchReceive(m)
    \/ BatchYield
    \/ BatchEnd

BatchSpec == BatchInit /\ [][BatchNext]_vars

TypeOK ==
    /\ owner \in 0..NumTasks
    /\ \A t \in Tasks : pc[t] \in {"idle", "queued", "locked", "sleeping", "inflight"}

\* ------------------------------------------------------------ properties

Waiting(t) == pc[t] \in {"queued", "locked", "sleeping"}
InFlight == {t \in Tasks : pc[t] = "inflight"}

\* C1: the starts of two consecutive wrapped requests on one limiter are at
\* least REQ_COOLDOWN_DURATION apart, and at most one caller at a time holds
\* the deadline slot to read and compare it.
C1_StartsSpacedByCooldown ==
    /\ IF lastGap = <<>> THEN TRUE ELSE lastGap[1] >= REQ_COOLDOWN_DURATION
    /\ Cardinality({t \in Tasks : pc[t] \in {"locked", "inflight"}}) <= 1

\* A second request has started, a full cooldown after the previous start,
\* while another caller is still waiting on the same limiter.
C1_Witness ==
    /\ lastGap # <<>>
    /\ InFlight # {}
    /\ \E u \in Tasks : Waiting(u)

\* C2 (as amended): a task whose wrapped future is running owns the mutex, so
\* no second wrapped request is in flight until the first one has ended.
C2_InFlightHoldsMutex ==
    /\ \A t \in Tasks : pc[t] = "inflight" => owner = t
    /\ Cardinality(InFlight) <= 1

\* A is in flight, the cooldown since its start has elapsed and B waits for
\* the mutex.
C2_Witness ==
    /\ InFlight # {}
    /\ lastStart # <<>>
    /\ lastStart[1] <= 0 - REQ_COOLDOWN_DURATION
    /\ waitq # <<>>

\* C2 (original): once the cooldown after A's start has elapsed, a caller B
\* waiting on the same limiter can be permitted to start while A's wrapped
\* future is still running.
C2_SecondCallerCanStart ==
    \A a \in Tasks, b \in Tasks :
        ( /\ a # b
          /\ pc[a] = "inflight"
          /\ lastStart # <<>>
          /\ lastStart[1] <= 0 - REQ_COOLDOWN_DURATION
          /\ waitq # <<>>
          /\ Head(waitq) = b )
        => ENABLED (LockProceed(b) \/ LockSleep(b))

\* C3: first come, first served: a caller's wrapped request never starts
\* while a caller that invoked check earlier is still waiting.
C3_FirstComeFirstServed ==
    \A i \in DOMAIN arrivals, j \in DOMAIN arrivals :
        (i < j /\ pc[arrivals[j]] = "inflight") => pc[arrivals[i]] = "inflight"

\* C4: no request starves: when callers stop dropping their calls and every
\* wrapped request terminates, every waiting call eventually starts its
\* wrapped request, even while other callers keep arriving.
C4_NoStarvation ==
    (<>[][\A u \in Tasks : ~Cancel(u)]_vars)
        => \A t \in Tasks : Waiting(t) ~> (pc[t] \in {"inflight", "idle"})

\* C5: when a wrapped future ends (success, error or panic) or is dropped,
\* the deadline slot holds now + REQ_COOLDOWN_DURATION when the mutex is
\* released, and check returns what the wrapped future produced.
C5_DeadlineWrittenOnEveryExit ==
    [][\A t \in Tasks :
          (pc[t] = "inflight" /\ pc'[t] # "inflight")
          => /\ deadline' = <<REQ_COOLDOWN_DURATION>>
             /\ owner' # t
             /\ pc'[t] = "idle"
             /\ ret' = futOut'
             /\ ret' # <<>>]_vars

\* A wrapped future has panicked and the slot holds the fresh deadline.
C5_Witness ==
    /\ ret = <<"panic">>
    /\ futOut = <<"panic">>
    /\ deadline = <<REQ_COOLDOWN_DURATION>>
    /\ owner = 0

\* C6: dropping a check call at a suspension point leaves the mutex neither
\* held by nor queued for the dropped call, leaves the deadline slot at its
\* previous value or at now + REQ_COOLDOWN_DURATION, and the callers still
\* waiting are not blocked: once no call is dropped any more and no new call
\* arrives, every call that is waiting starts its wrapped request (stated for
\* task 1; the tasks are interchangeable).
C6_CancelStep ==
    \A t \in Tasks :
        (pc[t] # "idle" /\ pc'[t] = "idle" /\ ret' = <<"dropped">>)
        => /\ owner' # t
           /\ ~InSeq(waitq', t)
           /\ deadline' \in {deadline, <<REQ_COOLDOWN_DURATION>>}
           /\ (pc[t] # "inflight" => deadline' = deadline)

C6_IdleHoldsNothing ==
    \A t \in Tasks : pc[t] = "idle" => (owner # t /\ ~InSeq(waitq, t))

C6_CancellationLeavesLimiterUsable ==
    /\ [][C6_CancelStep]_vars
    /\ [](C6_IdleHoldsNothing)
    /\ (<>[][\A u \in Tasks : ~Cancel(u) /\ ~Call(u)]_vars)
          => (Waiting(1) ~> (pc[1] \in {"inflight", "idle"}))

\* A call was dropped and afterwards another caller's wrapped request runs.
C6_Witness ==
    /\ ret = <<"dropped">>
    /\ \E t \in Tasks, u \in Tasks : pc[t] = "idle" /\ pc[u] = "inflight"

\* The items of the given responses' records, in server order.
RECURSIVE ItemsOf(_)
ItemsOf(resps) ==
    IF resps = <<>> THEN <<>>
    ELSE [i \in 1..Len(Head(resps).body) |-> TryFrom(Head(resps).body[i])]
         \o ItemsOf(Tail(resps))

EmptyPage(r) == r.ok /\ r.body = <<>>
FullPage(r) == r.ok /\ r.body # <<>>
AllBefore(i) == SubSeq(served, 1, i - 1)

\* C7: when the server has sent k non-empty pages and then an empty one, the
\* PostStream has issued exactly k+1 requests, issues no further one, and,
\* pulled to its end, has yielded exactly the records of pages 1..k in order,
\* with no error item for a failed request.
C7_PaginationExhaustion ==
    kind = "post" =>
        \A i \in DOMAIN served :
            EmptyPage(served[i]) =>
                /\ i = Len(served)
                /\ \A j \in 1..(i - 1) : FullPage(served[j])
                /\ Len(requests) = i
                /\ stream.ended /\ stream.query_future = <<>>
                /\ lastRet = "End"
                /\ yielded = ItemsOf(AllBefore(i))
                /\ \A n \in DOMAIN yielded : yielded[n].err \notin FetchErrors

\* A PostStream ended by the empty page that followed two non-empty pages.
C7_Witness ==
    /\ kind = "post"
    /\ Len(served) = 3
    /\ EmptyPage(served[3])
    /\ lastRet = "End"
    /\ Len(yielded) >= 3

\* The PostStream ended on its very first, empty, page: one request, no item.
C7_WitnessNoResult ==
    /\ kind = "post"
    /\ Len(served) = 1
    /\ EmptyPage(served[1])
    /\ Len(requests) = 1
    /\ yielded = <<>>

\* C8: when the request for page n of a PostStream fails, the stream has
\* yielded every record of pages 1..n-1 and then exactly one Err item, it is
\* ended, and no request for page n+1 is issued.
C8_ErrorShortCircuit ==
    kind = "post" =>
        \A i \in DOMAIN served :
            ~served[i].ok =>
                /\ i = Len(served)
                /\ \A j \in 1..(i - 1) : FullPage(served[j])
                /\ Len(requests) = i
                /\ yielded = ItemsOf(AllBefore(i)) \o <<ErrItem(served[i].err)>>
                /\ stream.ended /\ stream.query_future = <<>> /\ stream.chunk = <<>>
                /\ lastRet \in {"Item", "End"}

\* Page 2 failed after a non-empty page 1 and the stream was polled again.
C8_Witness ==
    /\ kind = "post"
    /\ Len(served) = 2
    /\ FullPage(served[1])
    /\ ~served[2].ok
    /\ lastRet = "End"
    /\ endPolls >= 1

C10_EndedStep ==
    stream.ended =>
        /\ stream'.ended
        /\ stream' = stream
        /\ stream.query_future = <<>>
        /\ lastRet' = "End"
        /\ yielded' = yielded
        /\ requests' = requests
        /\ served' = served

C10_EndedIsAbsorbing ==
    /\ [][C10_EndedStep]_vars
    /\ [](lastRet = "End" => (stream.ended /\ stream.query_future = <<>> /\ stream.chunk = <<>>))

\* A PoolStream and a PostStream polled again after they returned
\* end-of-stream, after an error and after an empty page.
C10_Witness ==
    /\ endPolls = MaxEndPolls
    /\ kind = "pool"
    /\ yielded # <<>>
    /\ yielded[Len(yielded)].err \in FetchErrors

C10_WitnessEmptyPage ==
    /\ endPolls = MaxEndPolls
    /\ kind = "post"
    /\ served # <<>>
    /\ EmptyPage(served[Len(served)])

\* A fetch future exists: a request was sent and its response not yet consumed.
Outstanding == stream.query_future # <<>>

\* A poll that issues a request issues exactly one, with no fetch outstanding
\* and every record of the earlier pages handed out; the only response it may
\* consume is the one to that request.
C11_IssueStep ==
    requests' # requests =>
        /\ Len(requests') = Len(requests) + 1
        /\ Len(served') <= Len(requests')
        /\ Len(requests) = Len(served)
        /\ stream.query_future = <<>> /\ stream.chunk = <<>>
        /\ yielded = ItemsOf(served)

\* C11: requests of one PostStream or PoolStream are strictly sequential: at
\* most one page fetch is outstanding at any time, and the request for the
\* next page is created only after the previous page's response was received,
\* decoded and all of its records handed to the caller.
C11_StrictlySequential ==
    /\ [](/\ Len(requests) \in {Len(served), Len(served) + 1}
          /\ Outstanding <=> Len(requests) = Len(served) + 1
          /\ Outstanding =>
                /\ stream.chunk = <<>>
                /\ ~stream.ended
                /\ \A j \in DOMAIN served : FullPage(served[j])
                /\ yielded = ItemsOf(served))
    /\ [][C11_IssueStep]_vars

\* The request for page 2 is outstanding after both records of page 1 were
\* handed to the caller.
C11_Witness ==
    /\ Outstanding
    /\ Len(requests) = 2
    /\ Len(served) = 1
    /\ Len(served[1].body) = 2
    /\ Len(yielded) = 2

\* C12: records are emitted in server order: what a PostStream or PoolStream
\* has yielded is, record for record, the beginning of the fetched pages'
\* response arrays laid end to end (page n before page n+1), and the buffer
\* holds the not yet yielded records of the latest page, last one first.
C12_ServerOrder ==
    LET all == ItemsOf(served)
        m == Len(all) - Len(stream.chunk)
    IN /\ m >= 0
       /\ Len(yielded) \in {m, m + 1}
       /\ SubSeq(yielded, 1, m) = SubSeq(all, 1, m)
       /\ Len(yielded) = m + 1 => yielded[m + 1].err \in FetchErrors
       /\ \A i \in 1..Len(stream.chunk) :
             stream.chunk[Len(stream.chunk) + 1 - i] = all[m + i]

\* Both records of a first page with two different ids, then a record of the
\* second page, have been yielded.
C12_Witness ==
    /\ Len(served) = 2
    /\ Len(served[1].body) = 2
    /\ served[1].body[1].id # served[1].body[2].id
    /\ FullPage(served[2])
    /\ Len(yielded) = 3
    /\ yielded[1].ok /\ yielded[2].ok

\* The ids of the tags of the i-th response.
TagIdsOf(i) == {tagServed[i].body[k] : k \in DOMAIN tagServed[i].body}

IsBefore(page) == page # <<>> /\ page[1].kind = "Before"

\* The server answered the i-th request with ids below its Before cursor.
ServedBelowCursor(i) ==
    IsBefore(tagRequests[i].page) =>
        \A id \in TagIdsOf(i) : id < tagRequests[i].page[1].n

\* The search started from a Before cursor, or from no cursor and no order.
UnorderedStart ==
    /\ tagRequests # <<>>
    /\ \/ IsBefore(tagRequests[1].page)
       \/ tagRequests[1].page = <<>> /\ tagRequests[1].order = <<>>

\* C13: in a tag_search started from a Before cursor, or from no cursor with
\* no order, against a server that returns only ids below the requested
\* cursor, every request after the first carries a Before cursor that is
\* strictly smaller than the previous request's and no larger than any id of
\* the pages fetched before it.
C13_BeforeCursorDecreases ==
    (UnorderedStart /\ \A i \in DOMAIN tagServed : ServedBelowCursor(i)) =>
        \A k \in 2..Len(tagRequests) :
            /\ IsBefore(tagRequests[k].page)
            /\ IsBefore(tagRequests[k - 1].page) =>
                  tagRequests[k].page[1].n < tagRequests[k - 1].page[1].n
            /\ \A j \in 1..(k - 1) : \A id \in TagIdsOf(j) :
                  tagRequests[k].page[1].n <= id

\* Three requests from a Before cursor, the first answered with two tags
\* whose larger id comes first, each page below its cursor.
C13_Witness ==
    /\ Len(tagRequests) = 3
    /\ IsBefore(tagRequests[1].page)
    /\ \A i \in DOMAIN tagServed : ServedBelowCursor(i)
    /\ Len(tagServed[1].body) = 2
    /\ tagServed[1].body[1] > tagServed[1].body[2]
    /\ tagServed[2].body # <<>>

\* The smallest and the largest id of the i-th response.
LeastTagId(i) == CHOOSE m \in TagIdsOf(i) : \A id \in TagIdsOf(i) : m <= id
GreatestTagId(i) == CHOOSE m \in TagIdsOf(i) : \A id \in TagIdsOf(i) : m >= id

\* The cursor the claim gives for the request after the i-th one.
C14_Expected(i) ==
    LET q == tagRequests[i] IN
    IF q.page # <<>>
    THEN CASE q.page[1].kind = "Before" -> Before(LeastTagId(i))
           [] q.page[1].kind = "After" -> After(GreatestTagId(i))
           [] q.page[1].kind = "Page" -> Page(q.page[1].n + 1)
    ELSE CASE q.order = <<>> -> Before(LeastTagId(i))
           [] q.order \in {<<"IdDsc">>, <<"Date">>} -> Before(LeastTagId(i))
           [] q.order = <<"IdAsc">> -> After(GreatestTagId(i))
           [] q.order \in {<<"Name">>, <<"Count">>, <<"Similarity">>} -> Page(2)

\* C14: after a non-empty page, the next request of tag_search carries
\* Before(min id) for a Before cursor, After(max id) for an After cursor,
\* Page(p+1) for Page(p), and with no cursor Before(min) for no order, IdDsc
\* or Date, After(max) for IdAsc and Page(2) for any other order; after an
\* empty page there is no next cursor and the stream has ended.
C14_NextCursor ==
    \A i \in DOMAIN tagServed :
        LET last == i = Len(tagServed) IN
        /\ (tagServed[i].ok /\ tagServed[i].body # <<>>) =>
              /\ last => /\ ~tagEnded
                          /\ tagState # <<>>
                          /\ tagState[1].page = <<C14_Expected(i)>>
                          /\ tagState[1].order = tagRequests[i].order
              /\ ~last => /\ tagRequests[i + 1].page = <<C14_Expected(i)>>
                           /\ tagRequests[i + 1].order = tagRequests[i].order
        /\ (tagServed[i].ok /\ tagServed[i].body = <<>>) =>
              last /\ tagEnded /\ tagState = <<>> /\ tagBuf = <<>>

\* A search ordered by Date with no cursor went on with a Before cursor after
\* a page whose smallest id is not its first.
C14_Witness ==
    /\ Len(tagRequests) >= 2
    /\ tagRequests[1] = [QueryNew EXCEPT !.order = <<"Date">>]
    /\ Len(tagServed[1].body) = 2
    /\ tagServed[1].body[1] > tagServed[1].body[2]
    /\ tagRequests[2].page = <<Before(tagServed[1].body[2])>>

\* The smallest id among the records of a response array.
LeastRecordId(body) ==
    CHOOSE m \in {body[i].id : i \in DOMAIN body} : \A i \in DOMAIN body : m <= body[i].id

\* C15: in a PostStream without an order: term, the before_id of every
\* request after the first is the minimum id among the records of the page
\* fetched just before it, whatever the order of the records in the page and
\* whether or not they decode.
C15_BeforeIdIsPageMinimum ==
    (kind = "post" /\ stream.query # "ordered") =>
        \A k \in 2..Len(requests) :
            requests[k].before_id = <<LeastRecordId(served[k - 1].body)>>

C17_FirstRequestStep ==
    (kind = "post" /\ stream.query # "ordered" /\ requests = <<>> /\ requests' # <<>>) =>
        /\ stream = PostStreamNew(stream.query, stream.last_id)
        /\ requests'[1] = [page |-> <<>>,
                           before_id |-> stream.last_id,
                           tags |-> stream.query # "none"]

\* C17: the first request of an unordered post search carries no page and no
\* before_id when the caller supplied no start id, and before_id = start id
\* when the caller supplied one; without a start id a before_id is sent from
\* the second request on at the earliest.
C17_FirstRequestWithoutCursor ==
    /\ [][C17_FirstRequestStep]_vars
    /\ []((kind = "post" /\ stream.query # "ordered") =>
             \A k \in DOMAIN requests :
                 /\ requests[k].page = <<>>
                 /\ requests[k].before_id # <<>> =>
                       \/ requests[1].before_id # <<>>
                       \/ k >= 2 /\ \E n \in DOMAIN yielded : yielded[n].ok)

\* A search with tags and no start id: the first request without before_id,
\* the second with one.
C17_Witness ==
    /\ kind = "post"
    /\ stream.query = "plain"
    /\ Len(requests) >= 2
    /\ requests[1] = [page |-> <<>>, before_id |-> <<>>, tags |-> TRUE]
    /\ requests[2].before_id # <<>>

\* The caller has asked for an order and for a Before/After starting cursor.
AskedConflict == tagAsked.order # <<>> /\ IsIdRelative(tagAsked.page)

\* The Query as the setters left it: the one the first request carries.
BuiltQuery == IF tagRequests = <<>> THEN tagState[1] ELSE tagRequests[1]

C19_AboveLimitBeforeAnyRequest ==
    \A c \in {clResult[i] : i \in DOMAIN clResult} :
        c.op \in {"list", "list_before", "list_page"} =>
            /\ c.res = [ok |-> FALSE, err |-> "AboveLimit", posts |-> EmptyPosts,
                        args |-> <<"limit", c.limit, 320>>]
                  <=> c.limit > 320
            /\ c.limit > 320 => (clRequests = <<>> /\ clSleeps = 0)
            /\ c.limit <= 320 =>
                  /\ c.res.err # "AboveLimit"
                  /\ clSleeps = 1
                  /\ Len(clRequests) = 1
                  /\ clRequests[1].limit = c.limit

\* list_before was called with limit = 321 and returned the error.
C19_Witness ==
    /\ clResult # <<>>
    /\ clResult[1].op = "list_before"
    /\ clResult[1].limit = 321
    /\ clResult[1].res.err = "AboveLimit"
    /\ clRequests = <<>>

\* list was called with limit = 320 and returned the posts of its request.
C19_WitnessAtLimit ==
    /\ clResult # <<>>
    /\ clResult[1].op = "list"
    /\ clResult[1].limit = 320
    /\ clResult[1].res.ok
    /\ clResult[1].res.posts.len = 320

\* The number of posts in the first n responses of the call.
RECURSIVE PostsIn(_)
PostsIn(n) == IF n = 0 THEN 0 ELSE PostsIn(n - 1) + clServed[n].posts.len

\* An answer with at least one post, all of them decoded.
GoodPage(r) == r.ok /\ r.decodes /\ r.posts.len > 0

\* The unordered search in progress or just finished, and its limit.
InSearch == clSearch # <<>> \/ (clResult # <<>> /\ clResult[1].op = "search")
SearchLimit == IF clSearch # <<>> THEN clSearch[1].limit ELSE clResult[1].limit

\* C20: Client::search on an unordered query sends its requests one after
\* the other, each asking for min(limit - posts gathered so far, 320) posts,
\* the first without before_id and every later one with before_id; it goes
\* on exactly while fewer than limit posts are gathered and the latest page
\* was not empty, returns all the posts gathered, fails only with the error
\* of a request, and returns at most limit posts when no answer held more
\* posts than asked.
C20_SearchBeyondLimit ==
    InSearch =>
        /\ Len(clServed) = Len(clRequests)
        /\ clSleeps = Len(clRequests)
        /\ \A k \in DOMAIN clRequests :
              /\ PostsIn(k - 1) < SearchLimit
              /\ clRequests[k].limit =
                    (IF SearchLimit - PostsIn(k - 1) < 320
                     THEN SearchLimit - PostsIn(k - 1) ELSE 320)
              /\ clRequests[k].page = <<>>
              /\ clRequests[k].before_id = <<>> <=> k = 1
              /\ k < Len(clRequests) => GoodPage(clServed[k])
        /\ clSearch # <<>> =>
              /\ PostsIn(Len(clServed)) < SearchLimit
              /\ \A k \in DOMAIN clServed : GoodPage(clServed[k])
        /\ (clResult # <<>> /\ clResult[1].res.ok) =>
              /\ clResult[1].res.posts.len = PostsIn(Len(clServed))
              /\ \/ PostsIn(Len(clServed)) >= SearchLimit
                 \/ clServed # <<>> /\ clServed[Len(clServed)].posts.len = 0
              /\ (\A k \in DOMAIN clServed : clServed[k].posts.len <= clRequests[k].limit)
                    => clResult[1].res.posts.len <= SearchLimit
        /\ (clResult # <<>> /\ ~clResult[1].res.ok) =>
              /\ clServed # <<>>
              /\ ~GoodPage(clServed[Len(clServed)])
              /\ clResult[1].res.err \in FetchErrors \cup {"PostDeserialization"}

\* A search for 641 posts that took three requests, of 320, 320 and 1 posts.
C20_Witness ==
    /\ clResult # <<>>
    /\ clResult[1].op = "search"
    /\ clResult[1].limit = 641
    /\ clResult[1].res.ok
    /\ clResult[1].res.posts.len = 641
    /\ Len(clRequests) = 3
    /\ clRequests[3].limit = 1

\* A search that stopped on an empty page with fewer posts than asked.
C20_WitnessEmptyPage ==
    /\ clResult # <<>>
    /\ clResult[1].op = "search"
    /\ clResult[1].res.ok
    /\ clResult[1].res.posts.len < clResult[1].limit
    /\ Len(clRequests) >= 2

\* What client.list(q, limit) with an ordered q comes to when the server's
\* answers are `got`: its result, its requests and its sleeps.
ListOfOrdered(limit, got) ==
    List(TRUE, limit, IF got = <<>> THEN [ok |-> FALSE, err |-> "Http", decodes |-> FALSE,
                                          posts |-> EmptyPosts]
                      ELSE got[1])

\* C21: for a query with an order: term, search(q, limit) does what
\* list(q, limit) does for every limit: the same single request, the same
\* result for the same answer of the server, and the same AboveLimit error
\* with no request when limit > 320; the unordered search never fails with
\* AboveLimit.
C21_OrderedSearchIsList ==
    \A c \in {clResult[i] : i \in DOMAIN clResult} :
        /\ c.op = "search_ordered" =>
              /\ Len(clServed) <= 1
              /\ c.res = ListOfOrdered(c.limit, clServed).res
              /\ clRequests = ListOfOrdered(c.limit, clServed).reqs
              /\ clSleeps = ListOfOrdered(c.limit, clServed).sleeps
              /\ clServed = <<>> <=> c.limit > 320
              /\ c.limit > 320 => c.res.err = "AboveLimit" /\ c.res.args = <<"limit", c.limit, 320>>
              /\ c.limit <= 320 =>
                    clRequests = <<[limit |-> c.limit, before_id |-> <<>>,
                                    page |-> <<>>, ordered |-> TRUE]>>
        /\ c.op = "search" => c.res.err # "AboveLimit"

\* An ordered search for 321 posts returned AboveLimit without a request.
C21_Witness ==
    /\ clResult # <<>>
    /\ clResult[1].op = "search_ordered"
    /\ clResult[1].limit = 321
    /\ clResult[1].res.err = "AboveLimit"
    /\ clRequests = <<>>

\* An ordered search for 320 posts returned the posts of its only request.
C21_WitnessOneRequest ==
    /\ clResult # <<>>
    /\ clResult[1].op = "search_ordered"
    /\ clResult[1].limit = 320
    /\ clResult[1].res.ok
    /\ Len(clRequests) = 1

\* The number that the characters of text denote in base ten, read from the
\* last character backwards.
RECURSIVE DecimalValue(_)
DecimalValue(text) ==
    IF text = <<>> THEN 0
    ELSE DecimalValue(SubSeq(text, 1, Len(text) - 1)) * 10 + DigitValue(text[Len(text)])

\* text is the decimal numeral of n: digits only, no leading zero.
IsNumeralOf(text, n) ==
    /\ text # <<>>
    /\ \A i \in DOMAIN text : IsDigit(text[i])
    /\ Len(text) > 1 => text[1] # "0"
    /\ DecimalValue(text) = n

\* C22: the text of Page(n) is the decimal numeral of n, the text of
\* Before(id) is "b" followed by the numeral, the text of After(id) is "a"
\* followed by the numeral, and parsing the text gives back the cursor that was
\* encoded.
C22_CursorRoundTrip ==
    /\ curStage # "new" =>
          /\ curIn.kind = "Page" => IsNumeralOf(curText, curIn.n)
          /\ curIn.kind = "Before" =>
                curText[1] = "b" /\ IsNumeralOf(Tail(curText), curIn.n)
          /\ curIn.kind = "After" =>
                curText[1] = "a" /\ IsNumeralOf(Tail(curText), curIn.n)
    /\ curStage = "parsed" => curOut = <<[ok |-> TRUE, cursor |-> curIn]>>

\* Before(42) was written as "b42" and read back.
C22_Witness ==
    /\ curStage = "parsed"
    /\ curIn = Before(42)
    /\ curText = <<"b", "4", "2">>
    /\ curOut = <<[ok |-> TRUE, cursor |-> Before(42)]>>

\* After(17) was written as "a17" and read back.
C22_WitnessAfter ==
    /\ curStage = "parsed"
    /\ curIn = After(17)
    /\ curText = <<"a", "1", "7">>

\* Page(9) was written as "9" and read back.
C22_WitnessPage ==
    /\ curStage = "parsed"
    /\ curIn = Page(9)
    /\ curText = <<"9">>
    /\ curOut[1].cursor = Page(9)

\* ceil(n / BATCH_SIZE)
BatchesNeeded(n) == (n + BATCH_SIZE - 1) \div BATCH_SIZE

\* C23: fetching n ids by batch sends requests of at most 100 ids, all but
\* the last of exactly 100, each after the response of the one before; when
\* the sequence has ended ceil(n / 100) requests were sent and every record of
\* every response was handed out; with no id no request is ever sent.
C23_BatchByIdRequests ==
    /\ \A i \in DOMAIN bRequests :
          /\ bRequests[i] >= 1
          /\ bRequests[i] <= 100
          /\ i < Len(bRequests) => bRequests[i] = 100
    /\ Len(bServed) <= Len(bRequests)
    /\ Len(bRequests) <= Len(bServed) + 1
    /\ Len(bRequests) <= BatchesNeeded(bIds)
    /\ bEnded => Len(bRequests) = BatchesNeeded(bIds) /\ bYielded = bServed
    /\ bIds = 0 => bRequests = <<>>

\* 250 ids were fetched with requests of 100, 100 and 50 ids and the
\* sequence has ended after handing out all 250 records.
C23_Witness ==
    /\ bIds = 250
    /\ bEnded
    /\ bRequests = <<100, 100, 50>>
    /\ bYielded = <<100, 100, 50>>

\* An empty id collection: the sequence has ended without a request.
C23_WitnessEmpty ==
    /\ bIds = 0
    /\ bEnded
    /\ bRequests = <<>>

\* C24: Client::new with an empty user agent fails with CannotCreateClient
\* without a request or a sleep and leaves no client; a client that exists
\* holds the non-empty user agent it was built with, and every request sent
\* carries exactly that user agent.
C24_NoClientWithoutUserAgent ==
    /\ clUserAgent = <<<<>>>> =>
          /\ clClient = <<>>
          /\ clResult # <<>>
          /\ clResult[1].op = "new"
          /\ clResult[1].res.err = "CannotCreateClient"
          /\ clRequests = <<>>
          /\ clSleeps = 0
    /\ clClient # <<>> =>
          /\ clUserAgent # <<>>
          /\ clClient[1].headers.user_agent # <<>>
          /\ clClient[1].headers.user_agent = clUserAgent[1]
    /\ Len(clHeaders) = Len(clRequests)
    /\ \A i \in DOMAIN clHeaders :
          /\ clUserAgent # <<>>
          /\ clHeaders[i].user_agent # <<>>
          /\ clHeaders[i].user_agent = clUserAgent[1]

\* Client::new(b"") has returned CannotCreateClient.
C24_Witness ==
    /\ clUserAgent = <<<<>>>>
    /\ clClient = <<>>
    /\ clResult # <<>>
    /\ clResult[1].res.err = "CannotCreateClient"

\* A client built with a non-empty user agent has sent two requests.
C24_WitnessRequests ==
    /\ clClient # <<>>
    /\ Len(clRequests) = 2
    /\ clHeaders[2].user_agent = <<114, 115>>

\* The Query holds a sort order together with a Before/After cursor.
OrderWithIdCursor(q) == q.order # <<>> /\ IsIdRelative(q.page)

\* A builder call: .page(..) or .order(..) was chained on the Query.
C25_BuilderStep ==
    tagBuilt' = tagBuilt + 1 =>
        LET q == tagState[1]
            q2 == tagState'[1]
        IN /\ tagAsked'.last = "page" /\ IsIdRelative(tagAsked'.page) =>
                 q2 = [q EXCEPT !.page = tagAsked'.page, !.order = <<>>]
           /\ tagAsked'.last = "page" /\ ~IsIdRelative(tagAsked'.page) =>
                 q2 = [q EXCEPT !.page = tagAsked'.page]
           /\ tagAsked'.last = "order" /\ tagAsked'.order # <<>> /\ IsIdRelative(q.page) =>
                 q2 = [q EXCEPT !.page = <<>>, !.order = tagAsked'.order]
           /\ tagAsked'.last = "order" /\ ~IsIdRelative(q.page) =>
                 q2 = [q EXCEPT !.order = tagAsked'.order]

\* C25: whatever builder calls were made, the Query they leave, which is the
\* one the first request carries, never holds an order together with a
\* Before/After cursor: page(Before|After) clears the order, order(Some) clears
\* a Before/After page, and a Page(n) cursor and an order are kept together.
C25_NeverOrderWithIdCursor ==
    /\ [](~OrderWithIdCursor(BuiltQuery))
    /\ [][C25_BuilderStep]_vars

\* .order(o) then .page(Before|After): the order was cleared.
C25_Witness ==
    /\ tagAsked.order # <<>>
    /\ IsIdRelative(tagAsked.page)
    /\ tagAsked.last = "page"
    /\ tagState # <<>>
    /\ tagState[1] = [QueryNew EXCEPT !.page = tagAsked.page]

\* A Page(n) cursor and an order, set in either sequence, are both in the
\* first request.
C25_WitnessPageKept ==
    /\ tagRequests # <<>>
    /\ tagRequests[1].order # <<>>
    /\ tagRequests[1].page # <<>>
    /\ tagRequests[1].page[1].kind = "Page"

\* The tags of the first k responses, in the order the server sent them.
RECURSIVE TagItemsUpTo(_)
TagItemsUpTo(k) ==
    IF k = 0 THEN <<>>
    ELSE TagItemsUpTo(k - 1) \o
         [i \in DOMAIN tagServed[k].body |-> OkItem(tagServed[k].body[i])]

\* A page request of the tag search has failed.
TagRequestFailed == \E i \in DOMAIN tagServed : ~tagServed[i].ok

\* Once a page request has failed it is the last request, it was sent once,
\* and the stream has handed out every tag of the pages before it followed by
\* one Err item holding its error.
C27_AfterFailure ==
    \A i \in DOMAIN tagServed :
        ~tagServed[i].ok =>
            /\ i = Len(tagServed)
            /\ Len(tagRequests) = i
            /\ \A j \in 1..(i - 1) : tagServed[j].ok
            /\ tagYielded = TagItemsUpTo(i - 1) \o <<ErrItem(tagServed[i].err)>>
            /\ tagBuf = <<>>
            /\ tagState = <<>>

\* The pull that follows the Err item ends the stream without a request.
C27_NextPullEnds ==
    (TagRequestFailed /\ ~tagEnded) =>
        /\ tagEnded'
        /\ tagRequests' = tagRequests
        /\ tagServed' = tagServed
        /\ tagYielded' = tagYielded

\* C27: in tag_search a failed page request is handed out as exactly one Err
\* item after all tags of the earlier pages; the next pull ends the stream and
\* no further request is sent.
C27_ErrorEndsTagSearch ==
    /\ []C27_AfterFailure
    /\ [][C27_NextPullEnds]_vars

\* The second page request failed after a page of tags; the stream handed
\* out the tags, then the error, and has ended.
C27_Witness ==
    /\ Len(tagServed) = 2
    /\ tagServed[1].ok
    /\ ~tagServed[2].ok
    /\ tagEnded
    /\ Len(tagYielded) = Len(tagServed[1].body) + 1
    /\ ~tagYielded[Len(tagYielded)].ok

\* The page numbers PoolStream asked for are 1, 2, 3, ...
PoolPagesInOrder ==
    kind = "pool" => \A i \in DOMAIN requests : requests[i].page = <<i>>

\* When the server has sent k non-empty pages of pools and then an empty one,
\* k + 1 requests were sent, the consumer has received the entries of pages
\* 1..k and the poll that received the empty page returned end-of-stream.
PoolExhaustion ==
    kind = "pool" =>
        \A i \in DOMAIN served :
            EmptyPage(served[i]) =>
                /\ i = Len(served)
                /\ Len(requests) = i
                /\ stream.ended
                /\ lastRet = "End"
                /\ yielded = ItemsOf(AllBefore(i))

\* C26: PoolStream asks for page=1, page=2, ... in increasing order; after k
\* non-empty pages and an empty one it has sent k + 1 requests and handed out
\* the entries of pages 1..k; and a consumer pulling the stream does receive
\* end-of-stream.
C26_PoolListingReachesEnd ==
    /\ []PoolPagesInOrder
    /\ []PoolExhaustion
    /\ (kind = "pool") ~> (lastRet = "End")

\* The same for a PostStream, whose poll_next polls the future it creates.
PostListingReachesEnd == (kind = "post") ~> (lastRet = "End")

\* A sleeping caller holds no mutex and waits for none, and the mutex is
\* held only by a caller that is deciding or whose request is running.
C28_SleeperHoldsNothing ==
    /\ \A t \in Tasks : pc[t] = "sleeping" => owner # t /\ ~InSeq(waitq, t)
    /\ owner # 0 => pc[owner] \in {"locked", "inflight"}

\* What a caller of lock does around its sleep.
C28_SleepStep ==
    \A t \in Tasks :
        \* going to sleep: the deadline read was in the future, the slot is
        \* not written and the mutex goes to the next waiter or is free
        /\ pc[t] = "locked" /\ pc'[t] = "sleeping" =>
              /\ deadline # <<>>
              /\ snap[t] < deadline[1]
              /\ deadline' = deadline
              /\ wakeAt'[t] = deadline[1]
              /\ owner' = IF waitq = <<>> THEN 0 ELSE Head(waitq)
        \* waking: the mutex is taken again, at once when it is free
        /\ pc[t] = "sleeping" => pc'[t] \in {"sleeping", "locked", "queued", "idle"}
        /\ pc[t] = "sleeping" /\ pc'[t] \in {"locked", "queued"} =>
              /\ wakeAt[t] <= 0
              /\ pc'[t] = "locked" <=> owner = 0
              /\ pc'[t] = "locked" => owner' = t
              /\ pc'[t] = "queued" => owner' = owner /\ waitq' = Append(waitq, t)
              /\ deadline' = deadline
        \* the deadline the mutex now guards decides: proceed only when it
        \* has passed, else sleep again
        /\ pc[t] = "locked" /\ pc'[t] = "inflight" =>
              deadline = <<>> \/ snap[t] >= deadline[1]
        /\ pc[t] = "locked" /\ deadline # <<>> /\ snap[t] < deadline[1] =>
              pc'[t] \in {"locked", "sleeping", "idle"}
        \* a caller arriving while others sleep takes the free mutex at once
        /\ pc[t] = "idle" /\ pc'[t] # "idle" /\ owner = 0 =>
              pc'[t] = "locked" /\ owner' = t

\* C28: a caller of RateLimit::lock that finds the deadline in the future
\* releases the mutex before sleeping and leaves the deadline slot alone;
\* after waking it takes the mutex again and checks the deadline the slot
\* holds then, so a sleeper never keeps another caller from the mutex and a
\* waiter whose deadline was moved forward sleeps again.
C28_SleepOutsideMutex ==
    /\ []C28_SleeperHoldsNothing
    /\ [][C28_SleepStep]_vars

\* A waiter that has slept and woken holds the mutex again and finds the
\* deadline moved into the future: it is about to sleep a second time.
C28_Witness ==
    \E t \in Tasks :
        /\ pc[t] = "locked"
        /\ slept[t]
        /\ deadline # <<>>
        /\ snap[t] < deadline[1]

\* While one caller sleeps another one holds the mutex.
C28_WitnessOtherLocks ==
    \E t \in Tasks, u \in Tasks :
        /\ pc[t] = "sleeping"
        /\ pc[u] = "locked"

\* A wrapped request starts: RateLimit::lock returns the Guard to check.
C29_StartStep ==
    \A t \in Tasks :
        /\ pc[t] = "locked" /\ pc'[t] = "inflight" =>
              \/ lastEnd = <<>>
              \/ 0 - lastEnd[1] >= REQ_COOLDOWN_DURATION
        /\ pc[t] = "locked" /\ deadline = <<>> => pc'[t] # "sleeping"

\* On a limiter whose deadline slot is empty no request has ended, nobody
\* sleeps and nobody has slept.
C29_FreshLimiterNoSleep ==
    /\ deadline = <<>> <=> lastEnd = <<>>
    /\ deadline = <<>> => \A t \in Tasks : pc[t] # "sleeping" /\ ~slept[t]

\* C29: the cooldown runs from the end of a request: a wrapped request
\* starts at least REQ_COOLDOWN_DURATION after the previous one completed,
\* failed or was dropped, and the first request on a fresh limiter starts
\* without a sleep.
C29_CooldownFromEnd ==
    /\ []C29_FreshLimiterNoSleep
    /\ [][C29_StartStep]_vars

\* A request has just started, a full cooldown after the previous one ended.
C29_Witness ==
    /\ InFlight # {}
    /\ lastStart = <<0>>
    /\ lastEnd # <<>>
    /\ 0 - lastEnd[1] >= REQ_COOLDOWN_DURATION
    /\ lastGap # <<>>

\* The first request on a fresh limiter is running; its caller never slept.
C29_WitnessFirst ==
    /\ InFlight # {}
    /\ deadline = <<>>
    /\ lastEnd = <<>>
    /\ lastStart = <<0>>

\* A PostStream with records in its buffer has no fetch outstanding and is
\* not ended, and every request after the first was sent when the records
\* of all earlier pages had been handed out.
C30_BufferedMeansIdle ==
    kind = "post" =>
        /\ stream.chunk # <<>> => stream.query_future = <<>> /\ ~stream.ended
        /\ \A r \in 2..Len(requests) :
              /\ Len(served) >= r - 1
              /\ Len(yielded) >= Len(ItemsOf(SubSeq(served, 1, r - 1)))

\* One pull on the PostStream.
C30_PullStep ==
    kind = "post" =>
        /\ stream.chunk # <<>> =>
              /\ lastRet' = "Item"
              /\ yielded' = Append(yielded, PopItem(stream.chunk))
              /\ stream'.chunk = PopRest(stream.chunk)
              /\ stream'.query_future = <<>>
              /\ requests' = requests
              /\ served' = served
        /\ requests' # requests =>
              /\ stream.chunk = <<>>
              /\ stream.query_future = <<>>
              /\ ~stream.ended
              /\ Len(requests') = Len(requests) + 1

\* C30: a pull on a PostStream whose buffer holds a record returns a record
\* at once, without Pending, without a new fetch future and without a
\* request; a fetch is created only by a pull that finds the buffer empty, no
\* fetch outstanding and the stream not ended, so the records of one page
\* cost one request.
C30_BufferedPullIsImmediate ==
    /\ []C30_BufferedMeansIdle
    /\ [][C30_PullStep]_vars

\* Every record of a page of two was pulled from the PostStream with one
\* request.
C30_Witness ==
    /\ kind = "post"
    /\ Len(requests) = 1
    /\ Len(served) = 1
    /\ Len(served[1].body) = 2
    /\ Len(yielded) = 2
    /\ stream.chunk = <<>>
    /\ lastRet = "Item"

\* C31: a call of get_json sleeps and then sends, once each: a response with
\* a status outside 200..299 comes back as Http with that status, a failed
\* send as CannotSendRequest, a body that is not UTF-8 or not JSON as Serial,
\* and in no case is the request sent a second time; every call of the client
\* has slept once for each request it sent.
C31_GetJsonOneSend ==
    /\ clSleeps = Len(clRequests)
    /\ \A i \in DOMAIN clWire :
          LET w == clWire[i].wire
              r == clResult[1].res
          IN /\ clWire[i].steps = <<"sleep", "send">>
             /\ Len(clRequests) = 1
             /\ clSleeps = 1
             /\ clResult # <<>> /\ clResult[1].op = "get_json"
             /\ ~w.sent => r.err = "CannotSendRequest"
             /\ w.sent /\ (w.status < 200 \/ w.status > 299) =>
                   r.err = "Http" /\ r.args = <<w.status>>
             /\ w.sent /\ w.status >= 200 /\ w.status <= 299 /\ ~(w.utf8 /\ w.json) =>
                   r.err = "Serial"
             /\ w.sent /\ w.status >= 200 /\ w.status <= 299 /\ w.utf8 /\ w.json => r.ok

\* get_json has returned Http(500) for a response with status 500 and an
\* empty body, after one sleep and one send.
C31_Witness ==
    /\ clWire # <<>>
    /\ clWire[1].wire = [sent |-> TRUE, status |-> 500, utf8 |-> TRUE, json |-> FALSE]
    /\ clResult[1].res.err = "Http"
    /\ clResult[1].res.args = <<500>>
    /\ Len(clRequests) = 1

\* get_json has returned Serial for a 200 response whose body is not JSON.
C31_WitnessSerial ==
    /\ clWire # <<>>
    /\ clWire[1].wire.status = 200
    /\ clResult[1].res.err = "Serial"

\* The minimum id over the posts of the first k answers (k >= 1).
RECURSIVE LowestServed(_)
LowestServed(k) ==
    IF k = 1 THEN clServed[1].posts.lo
    ELSE IF clServed[k].posts.lo < LowestServed(k - 1) THEN clServed[k].posts.lo
    ELSE LowestServed(k - 1)

\* C32: in the unordered Client::search, when an iteration after the first
\* begins lowest_id is the minimum id of all posts gathered so far, so the
\* before_id of each request is that minimum, never above the before_id of
\* the request before it, and below it when the answer to that request held
\* a smaller id.
C32_LowestIdIsMinimum ==
    InSearch =>
        /\ clSearch # <<>> /\ clServed # <<>> =>
              clSearch[1].lowest_id = <<LowestServed(Len(clServed))>>
        /\ \A k \in 2..Len(clRequests) :
              /\ clRequests[k].before_id = <<LowestServed(k - 1)>>
              /\ k > 2 =>
                    /\ clRequests[k].before_id[1] <= clRequests[k - 1].before_id[1]
                    /\ clServed[k - 1].posts.lo < clRequests[k - 1].before_id[1] =>
                          clRequests[k].before_id[1] < clRequests[k - 1].before_id[1]

\* A third request of a search carries a before_id below that of the second.
C32_Witness ==
    /\ InSearch
    /\ Len(clRequests) >= 3
    /\ clRequests[3].before_id[1] < clRequests[2].before_id[1]

\* The server answered the second request with ids that are not below its
\* before_id: the third request carries the same before_id.
C32_WitnessSame ==
    /\ InSearch
    /\ Len(clRequests) >= 3
    /\ clServed[2].posts.lo > clServed[1].posts.lo
    /\ clRequests[3].before_id = clRequests[2].before_id

\* While the loop of the unordered search runs fewer than limit posts are
\* gathered, so limit - posts.len() is at least 1; no more requests are sent
\* than the limit; and with limit 0 nothing is sent and the result is empty.
C33_LoopBounds ==
    InSearch =>
        /\ clSearch # <<>> => clSearch[1].len < clSearch[1].limit
        /\ \A k \in DOMAIN clRequests : SearchLimit - PostsIn(k - 1) >= 1
        /\ Len(clRequests) <= SearchLimit
        /\ SearchLimit = 0 =>
              /\ clSearch = <<>>
              /\ clRequests = <<>>
              /\ clResult[1].res = ClOk(EmptyPosts)

\* An iteration that does not end the search has gathered at least one post.
C33_IterationGathers ==
    clSearch # <<>> /\ clSearch' # <<>> =>
        /\ clSearch'[1].len > clSearch[1].len
        /\ clSearch'[1].limit = clSearch[1].limit
        /\ Len(clRequests') = Len(clRequests) + 1

\* C33: Client::search terminates when every request returns: an iteration
\* gathers at least one post or ends the search on an empty page or an error,
\* limit - posts.len() does not underflow even when an answer holds more
\* posts than asked, at most limit requests are sent, and search(q, 0) on an
\* unordered query returns the empty list without a request.
C33_SearchTerminates ==
    /\ []C33_LoopBounds
    /\ [][C33_IterationGathers]_vars
    /\ (clSearch # <<>>) ~> (clSearch = <<>> /\ clResult # <<>>)

\* A search has ended after an answer that held one post more than asked.
C33_Witness ==
    /\ clResult # <<>>
    /\ clResult[1].op = "search"
    /\ clResult[1].res.ok
    /\ \E k \in DOMAIN clServed : clServed[k].posts.len = clRequests[k].limit + 1
    /\ clResult[1].res.posts.len > clResult[1].limit

\* search(q, 0) has returned the empty list without a request.
C33_WitnessZero ==
    /\ clResult # <<>>
    /\ clResult[1].op = "search"
    /\ clResult[1].limit = 0
    /\ clRequests = <<>>
    /\ clResult[1].res = ClOk(EmptyPosts)

\* The answer to request k of the blocking client is an error.
ClRequestFailed(k) == ~GetPosts(clServed[k]).ok

\* C34: when a page request of Client::search fails, search returns that
\* error and not one of the posts gathered from the pages before it; a lazy
\* stream never takes back what it has yielded, and the Err item of a failed
\* request comes after the records of the pages before it.
C34_SearchDropsStreamKeeps ==
    /\ [](\A c \in {clResult[i] : i \in DOMAIN clResult} :
            c.op = "search" =>
                \A k \in DOMAIN clServed :
                    ClRequestFailed(k) =>
                        /\ k = Len(clServed)
                        /\ ~c.res.ok
                        /\ c.res.err = GetPosts(clServed[k]).err
                        /\ c.res.posts.len = 0)
    /\ [][/\ Len(yielded') >= Len(yielded)
          /\ SubSeq(yielded', 1, Len(yielded)) = yielded]_vars
    /\ [](\A i \in DOMAIN served :
            ~served[i].ok =>
                /\ Len(yielded) = Len(ItemsOf(AllBefore(i))) + 1
                /\ SubSeq(yielded, 1, Len(yielded) - 1) = ItemsOf(AllBefore(i))
                /\ yielded[Len(yielded)] = ErrItem(served[i].err))

\* The second request of a search failed after a first page of posts: the
\* search returned the error alone.
C34_Witness ==
    /\ clResult # <<>>
    /\ clResult[1].op = "search"
    /\ Len(clServed) = 2
    /\ clServed[1].posts.len > 0
    /\ ClRequestFailed(2)
    /\ ~clResult[1].res.ok
    /\ clResult[1].res.posts.len = 0

\* A stream has yielded records and then the Err item of the failed request.
C34_WitnessStream ==
    /\ Len(served) = 2
    /\ ~served[2].ok
    /\ Len(yielded) >= 2
    /\ yielded[1].ok
    /\ ~yielded[Len(yielded)].ok

\* The wrapped future of a call has not started while the call waits in
\* lock, and has started once while the call awaits it.
C35_RunsByPhase ==
    \A t \in Tasks :
        /\ runs[t] <= 1
        /\ Waiting(t) => runs[t] = 0
        /\ pc[t] = "inflight" => runs[t] = 1

\* A call of check ends.
C35_ReturnStep ==
    \A t \in Tasks :
        /\ pc[t] # "idle" /\ pc'[t] = "idle" /\ ret' # <<"dropped">> =>
              /\ pc[t] = "inflight"
              /\ runs[t] = 1
              /\ ret' = futOut'
              /\ ret'[1] \in Outcomes
        /\ Waiting(t) /\ Waiting(t)' => runs'[t] = 0

\* C35: a call of RateLimit::check that is not dropped returns only after its
\* wrapped future was started, the future is started once however often the
\* loop of lock slept and retried, and what check returns is what the future
\* produced.
C35_FutureRunsExactlyOnce ==
    /\ []C35_RunsByPhase
    /\ [][C35_ReturnStep]_vars

\* The wrapped future of a call whose lock slept before it got through is
\* running, started once.
C35_Witness ==
    \E t \in Tasks :
        /\ pc[t] = "inflight"
        /\ slept[t]
        /\ runs[t] = 1

\* Every record of the page has an id below the before_id of the request it
\* answers (any id, when the request carries none).
IdsBelowRequested(body, before_id) ==
    before_id # <<>> => \A i \in DOMAIN body : body[i].id < before_id[1]

\* C36: in a PostStream without an order: term, every request after the first
\* differs from the request before it and carries a before_id strictly
\* smaller than that request's, whenever the page served in between had all
\* its ids below the before_id asked for, whether or not its records decode
\* and whatever their order.
C36_BeforeIdStrictlyDecreases ==
    (kind = "post" /\ stream.query # "ordered") =>
        \A k \in 2..Len(requests) :
            IdsBelowRequested(served[k - 1].body, requests[k - 1].before_id) =>
                /\ requests[k] # requests[k - 1]
                /\ requests[k].before_id # <<>>
                /\ requests[k - 1].before_id # <<>> =>
                      requests[k].before_id[1] < requests[k - 1].before_id[1]

\* The same chain of requests when some record of each served page decodes.
C36_DecreasesWhenSomeRecordDecodes ==
    (kind = "post" /\ stream.query # "ordered") =>
        \A k \in 2..Len(requests) :
            /\ IdsBelowRequested(served[k - 1].body, requests[k - 1].before_id)
            /\ \E i \in DOMAIN served[k - 1].body : served[k - 1].body[i].ok
            => /\ requests[k] # requests[k - 1]
               /\ requests[k].before_id # <<>>
               /\ requests[k - 1].before_id # <<>> =>
                     requests[k].before_id[1] < requests[k - 1].before_id[1]

\* A poll that returned Pending polled the outstanding fetch future, which
\* therefore holds the waker of the consumer's context.
C37_PendingMeansPolled ==
    lastRet = "Pending" => stream.query_future = <<"polled">>

\* C37: whenever poll_next of a PostStream or of a PoolStream returns Pending,
\* the outstanding fetch future was polled in that call, and a consumer that
\* polls again only when woken goes on to receive an item or end-of-stream
\* once the transport responds.
C37_NoLostWakeUp ==
    /\ []C37_PendingMeansPolled
    /\ (lastRet = "Pending") ~> (lastRet \in {"Item", "End"})

\* The same for a PostStream alone.
C37_PostStreamNoLostWakeUp ==
    /\ [](kind = "post" => C37_PendingMeansPolled)
    /\ (kind = "post" /\ lastRet = "Pending") ~> (lastRet \in {"Item", "End"})

\* The fields of a tag Query other than its page cursor.
QueryRest(q) == [q EXCEPT !.page = <<>>]

\* C38: every request of one tag_search carries the per_page, the order and
\* the search filters of the query the caller passed in, so the page size is
\* the same on every request, and so does the query kept for the next page:
\* only the page cursor differs.
C38_OnlyCursorChanges ==
    /\ \A k \in DOMAIN tagRequests :
          /\ QueryRest(tagRequests[k]) = QueryRest(BuiltQuery)
          /\ tagRequests[k].per_page = tagRequests[1].per_page
    /\ (tagRequests # <<>> /\ tagState # <<>>) =>
          QueryRest(tagState[1]) = QueryRest(BuiltQuery)

\* The second request of a search built with a page size and a filter has
\* another cursor than the first and the same page size and filters.
C38_Witness ==
    /\ Len(tagRequests) >= 2
    /\ tagRequests[1].per_page # <<>>
    /\ tagRequests[1].hide_empty
    /\ tagRequests[2].page # tagRequests[1].page
    /\ tagRequests[2].per_page = tagRequests[1].per_page
    /\ tagRequests[2].hide_empty

\* A later request of an ordered search with an id filter.
C38_WitnessOrdered ==
    /\ Len(tagRequests) >= 2
    /\ tagRequests[1].order = <<"Name">>
    /\ tagRequests[1].id # <<>>
    /\ tagRequests[2].page = <<Page(2)>>
    /\ tagRequests[2].id = tagRequests[1].id

\* C39: no request of tag_search, the first or a later one, carries a sort
\* order together with a Before/After cursor.
C39_RequestsKeepBuilderInvariant ==
    \A k \in DOMAIN tagRequests : ~OrderWithIdCursor(tagRequests[k])

\* The first request never does, and a later one does only when the query
\* was built with the order IdDsc, Date or IdAsc and no cursor.
C39_OnlyIdOrdersGetIdCursors ==
    \A k \in DOMAIN tagRequests :
        OrderWithIdCursor(tagRequests[k]) =>
            /\ k > 1
            /\ tagRequests[1].page = <<>>
            /\ tagRequests[1].order \in {<<"IdDsc">>, <<"Date">>, <<"IdAsc">>}

====
